---------------------------- MODULE Spec2Model ----------------------------
(***************************************************************************)
(* A model of precomputed-tif: the tiling grid and the pyramid builder of  *)
(* stack.py / blockfs_stack.py driven by main.py, and the chunk reader of  *)
(* client.py.                                                              *)
(*                                                                         *)
(* Arrays are 0-based as in the source; a numpy array x of length n is the *)
(* sequence s with s[i+1] = x[i].  A dense block is a record               *)
(* [nz, ny, nx, data] with data a function on <<k, j, i>> (Z, Y, X order). *)
(***************************************************************************)
EXTENDS Integers, Sequences, FiniteSets, TLC

(***************************************************************************)
(* Bounds of the model.                                                    *)
(***************************************************************************)
MaxExtent == 5      \* the X extent of a volume to build
MaxChunk == 3       \* the X chunk size
MaxLevels == 3      \* --levels
MaxSize == 4        \* a served volume's size on its varied axis
MaxOffset == 1      \* a served volume's voxel_offset
Margin == 2         \* how far outside the volume a query reaches
MaxSources == 3     \* the source volumes of a stitched volume
MaxBrick == 7       \* the extent of a source volume
MaxShift == 3       \* the X offset of a source volume
ImsUnit == 100      \* the voxels of an .ims volume per voxel of extent
ServedExtent == 2    \* the X extent of the volume the web servers serve

\* the Y and Z axes of a volume to build are kept smaller
MinorExtent == MaxExtent - 3
MinorChunk == MaxChunk - 1

\* np.dtype(np.uint16): the number of values of the volume's dtype
DTypeRange == 65536

VARIABLES
    x_extent, y_extent, z_extent,   \* StackBase extents (level 1)
    chunksize,                      \* StackBase.chunksize = <<cz, cy, cx>>
    ptype,                          \* PType: "image" | "segmentation"
    format,                         \* main's --format: "tiff" | "blockfs"
    n_levels,                       \* main's --levels
    urls,                           \* DANDIArrayReader.urls: source volumes
    unreadable,                     \* files a task of the build fails to read
    pc,                             \* position of main
    level,                          \* the level being built
    futures,                        \* tasks handed to the pool, not yet done
    grid,                           \* the coordinate arrays of the level's call
    info,                           \* the manifest file (scales), <<>> if none
    store,                          \* chunk address -> block written
    nwrites,                        \* chunk address -> number of writes
    failed,                         \* a task of the build raised
    errors,                         \* the tasks of the level that raised
    request,                        \* the client's last call
    result                          \* what that call returned or raised

vars == <<x_extent, y_extent, z_extent, chunksize, ptype, format, n_levels,
          urls, unreadable, pc, level, futures, grid, info, store, nwrites,
          failed, errors, request, result>>

config == <<x_extent, y_extent, z_extent, chunksize, ptype, format, n_levels,
            urls, unreadable>>

(***************************************************************************)
(* Integer and numpy helpers.                                              *)
(***************************************************************************)
Min(a, b) == IF a < b THEN a ELSE b
Max(a, b) == IF a > b THEN a ELSE b

\* Python's normalisation of a slice bound v on an axis of length n
SliceIndex(v, n) == IF v < 0 THEN Max(0, n + v) ELSE Min(v, n)

\* len(a[lo:hi]) for an axis of length n
SliceLen(lo, hi, n) == Max(0, SliceIndex(hi, n) - SliceIndex(lo, n))

\* np.arange(0, stop, step) for step > 0
Arange(stop, step) ==
    [i \in 1..(IF stop <= 0 THEN 0 ELSE (stop + step - 1) \div step)
        |-> (i - 1) * step]

\* numpy's rule for "dest[...] = src" / "dest[...] += src" on one axis:
\* the source axis has the destination's length, or length 1 (broadcast)
Broadcasts(srclen, destlen) == srclen = destlen \/ srclen = 1

RECURSIVE SumOver(_, _)
SumOver(S, f) ==
    IF S = {} THEN 0
    ELSE LET e == CHOOSE e \in S : TRUE IN f[e] + SumOver(S \ {e}, f)

RECURSIVE MaxOver(_, _)
MaxOver(S, f) ==
    IF S = {} THEN 0
    ELSE LET e == CHOOSE e \in S : TRUE IN Max(f[e], MaxOver(S \ {e}, f))

MakeBlock(nz, ny, nx, F(_, _, _)) ==
    [nz |-> nz, ny |-> ny, nx |-> nx,
     data |-> [p \in (0..(nz-1)) \X (0..(ny-1)) \X (0..(nx-1))
                  |-> F(p[1], p[2], p[3])]]

(***************************************************************************)
(* The source planes: a synthetic volume (tests' make_case), one plane per *)
(* Z, every voxel different from its neighbours and from 0.                *)
(***************************************************************************)
npstack(z, y, x) == 1 + 3 * x + ((x + y + z) % 2) + 40 * y + 400 * z

(***************************************************************************)
(* StackBase: the tiling grid.                                             *)
(***************************************************************************)
resolution(lvl) == 2 ^ (lvl - 1)

cx == chunksize[3]
cy == chunksize[2]
cz == chunksize[1]

n_x(lvl) == (x_extent \div (2 ^ (lvl - 1)) + cx - 1) \div cx

x0(lvl) == Arange((x_extent + resolution(lvl) - 1) \div resolution(lvl), cx)

\* x1 without the clip of the last end
x1_NotClipped(lvl) == [i \in 1..Len(x0(lvl)) |-> x0(lvl)[i] + cx]

x1(lvl) ==
    LET s == x0(lvl)
    IN  [i \in 1..Len(s) |->
            IF i = Len(s)
            THEN (x_extent + resolution(lvl) - 1) \div resolution(lvl)
            ELSE s[i] + cx]

n_y(lvl) == (y_extent \div (2 ^ (lvl - 1)) + cy - 1) \div cy

y0(lvl) == Arange((y_extent + resolution(lvl) - 1) \div resolution(lvl), cy)

y1(lvl) ==
    LET s == y0(lvl)
    IN  [i \in 1..Len(s) |->
            IF i = Len(s)
            THEN (y_extent + resolution(lvl) - 1) \div resolution(lvl)
            ELSE s[i] + cy]

n_z(lvl) == (z_extent \div (2 ^ (lvl - 1)) + cz - 1) \div cz

z0(lvl) == Arange((z_extent + resolution(lvl) - 1) \div resolution(lvl), cz)

z1(lvl) ==
    LET s == z0(lvl)
    IN  [i \in 1..Len(s) |->
            IF i = Len(s)
            THEN (z_extent + resolution(lvl) - 1) \div resolution(lvl)
            ELSE s[i] + cz]

\* the arrays write_level_1 computes and hands to its tasks
Level1Args ==
    [x0d |-> x0(1), x1d |-> x1(1), y0d |-> y0(1), y1d |-> y1(1),
     z0d |-> z0(1), z1d |-> z1(1),
     x0s |-> <<>>, x1s |-> <<>>, y0s |-> <<>>, y1s |-> <<>>,
     z0s |-> <<>>, z1s |-> <<>>,
     xsi_max |-> 0, ysi_max |-> 0, zsi_max |-> 0]

\* the arrays write_level_n(lvl) computes and hands to its tasks
LevelNArgs(lvl) ==
    [x0d |-> x0(lvl), x1d |-> x1(lvl), y0d |-> y0(lvl), y1d |-> y1(lvl),
     z0d |-> z0(lvl), z1d |-> z1(lvl),
     x0s |-> x0(lvl - 1), x1s |-> x1(lvl - 1),
     y0s |-> y0(lvl - 1), y1s |-> y1(lvl - 1),
     z0s |-> z0(lvl - 1), z1s |-> z1(lvl - 1),
     xsi_max |-> n_x(lvl - 1), ysi_max |-> n_y(lvl - 1),
     zsi_max |-> n_z(lvl - 1)]

NoArgs ==
    [x0d |-> <<>>, x1d |-> <<>>, y0d |-> <<>>, y1d |-> <<>>,
     z0d |-> <<>>, z1d |-> <<>>,
     x0s |-> <<>>, x1s |-> <<>>, y0s |-> <<>>, y1s |-> <<>>,
     z0s |-> <<>>, z1s |-> <<>>,
     xsi_max |-> 0, ysi_max |-> 0, zsi_max |-> 0]


(***************************************************************************)
(* StackBase.write_info_file: the manifest.  A key "%d_%d_%d" is the       *)
(* triple of its three numbers.                                            *)
(***************************************************************************)
\* the extent halved k times, rounding down
HalveTimes_Floor(extent, k) == extent \div (2 ^ k)

RECURSIVE HalveTimes(_, _)
\* the extent after k rounds of "extent = (extent + 1) // 2"
HalveTimes(extent, k) ==
    IF k = 0 THEN extent ELSE HalveTimes((extent + 1) \div 2, k - 1)

write_info_file(levels) ==
    [data_type |-> "uint16",
     type |-> ptype,
     scales |->
        [lvl \in 1..levels |->
            [chunk_sizes |-> <<cx, cy, cz>>,
             key |-> <<resolution(lvl), resolution(lvl), resolution(lvl)>>,
             size |-> <<HalveTimes(x_extent, lvl - 1),
                        HalveTimes(y_extent, lvl - 1),
                        HalveTimes(z_extent, lvl - 1)>>,
             voxel_offset |-> <<0, 0, 0>>]]]

NoInfo == [data_type |-> "uint16", type |-> "none", scales |-> <<>>]

(***************************************************************************)
(* Chunk addresses.  Stack names a chunk's file by its level directory and *)
(* all six bounds; BlockfsStack addresses a block of the level's directory *)
(* by its origin.                                                          *)
(***************************************************************************)
sfname(lvl, bx0, bx1, by0, by1, bz0, bz1) ==
    <<resolution(lvl), bx0, bx1, by0, by1, bz0, bz1>>

\* a block addressed without its Z origin
write_block_NoZ(lvl, bx0, by0, bz0) == <<resolution(lvl), bx0, by0, 0>>

write_block(lvl, bx0, by0, bz0) == <<resolution(lvl), bx0, by0, bz0>>

ChunkAddress(lvl, bx0, bx1, by0, by1, bz0, bz1) ==
    IF format = "tiff"
    THEN sfname(lvl, bx0, bx1, by0, by1, bz0, bz1)
    ELSE write_block(lvl, bx0, by0, bz0)

\* A task's writes are a set of records [addr, block, seq], seq the write's
\* place in the task's loop.  The store keeps, per address, the last write.
Addresses(W) == {w.addr : w \in W}

StoreAfter(W) ==
    [a \in DOMAIN store \cup Addresses(W) |->
        IF a \in Addresses(W)
        THEN (CHOOSE w \in W : /\ w.addr = a
                               /\ \A v \in W : v.addr = a => v.seq <= w.seq).block
        ELSE store[a]]

CountAfter(W) ==
    [a \in DOMAIN nwrites \cup Addresses(W) |->
        (IF a \in DOMAIN nwrites THEN nwrites[a] ELSE 0)
        + Cardinality({w \in W : w.addr = a})]

(***************************************************************************)
(* Level 1: one task per Z band reads the band's planes and writes every   *)
(* X/Y chunk of the band.                                                  *)
(***************************************************************************)
\* the (start, end) pairs zip(starts, ends) yields
Zip(starts, ends) ==
    {<<starts[i], ends[i]>> : i \in 1..Min(Len(starts), Len(ends))}

\* every band written from the first planes of the stack
Level1Block_FirstBand(z0a, z1a, y0a, y1a, x0a, x1a) ==
    MakeBlock(z1a - z0a, SliceLen(y0a, y1a, y_extent),
              SliceLen(x0a, x1a, x_extent),
              LAMBDA k, j, i : npstack(k, y0a + j, x0a + i))

\* img[:z1a - z0a, y0a:y1a, x0a:x1a] of the band's planes
Level1Block(z0a, z1a, y0a, y1a, x0a, x1a) ==
    LET bandlen == z1a - z0a
    IN  MakeBlock(SliceLen(0, z1a - z0a, bandlen),
                  SliceLen(y0a, y1a, y_extent),
                  SliceLen(x0a, x1a, x_extent),
                  LAMBDA k, j, i :
                      npstack(z0a + k,
                              SliceIndex(y0a, y_extent) + j,
                              SliceIndex(x0a, x_extent) + i))

\* the writes of one Z-band task: itertools.product(zip(x0, x1), zip(y0, y1))
write_one_level_1(z0a, z1a) ==
    LET nx == Min(Len(grid.x0d), Len(grid.x1d))
        ny == Min(Len(grid.y0d), Len(grid.y1d))
    IN  {[addr |-> ChunkAddress(1, grid.x0d[xi], grid.x1d[xi],
                                grid.y0d[yi], grid.y1d[yi], z0a, z1a),
          block |-> Level1Block(z0a, z1a, grid.y0d[yi], grid.y1d[yi],
                                grid.x0d[xi], grid.x1d[xi]),
          seq |-> (xi - 1) * ny + yi] : xi \in 1..nx, yi \in 1..ny}

(***************************************************************************)
(* Level n: one task per destination chunk index (xidx, yidx, zidx),       *)
(* 0-based.  It reads the up-to-8 source chunks 2*idx + {0, 1} of level    *)
(* n-1 and folds each one's 8 sub-lattices [off::2] into the block.        *)
(***************************************************************************)
Bits == {0, 1}

\* len(a[off::2]) for an axis of length w
dsblock_len(w, off) == IF w > off THEN (w - off + 1) \div 2 ELSE 0

\* the source chunks of the task the loop does not skip: <<xsi1, ysi1, zsi1>>
\* every source index 2 * idx + {0, 1}, none skipped
SourceNeighbours_NoSkip(xidx, yidx, zidx) == Bits \X Bits \X Bits

SourceNeighbours(xidx, yidx, zidx) ==
    {c \in Bits \X Bits \X Bits :
        /\ c[1] + xidx * 2 # grid.xsi_max
        /\ c[2] + yidx * 2 # grid.ysi_max
        /\ c[3] + zidx * 2 # grid.zsi_max}

\* x0s[xsi], ..., z1s[zsi] index inside the arrays
SourceIndexed(xidx, yidx, zidx, c) ==
    /\ c[1] + xidx * 2 + 1 \in DOMAIN grid.x0s
    /\ c[1] + xidx * 2 + 1 \in DOMAIN grid.x1s
    /\ c[2] + yidx * 2 + 1 \in DOMAIN grid.y0s
    /\ c[2] + yidx * 2 + 1 \in DOMAIN grid.y1s
    /\ c[3] + zidx * 2 + 1 \in DOMAIN grid.z0s
    /\ c[3] + zidx * 2 + 1 \in DOMAIN grid.z1s

SourceAddress(lvl, xidx, yidx, zidx, c) ==
    LET xsi == c[1] + xidx * 2 + 1
        ysi == c[2] + yidx * 2 + 1
        zsi == c[3] + zidx * 2 + 1
    IN  ChunkAddress(lvl - 1, grid.x0s[xsi], grid.x1s[xsi],
                     grid.y0s[ysi], grid.y1s[ysi],
                     grid.z0s[zsi], grid.z1s[zsi])

\* block[s1*h : s1*h + n] on an axis of length w: first index and length
DestLo(s1, h, w) == SliceIndex(s1 * h, w)
DestLen(s1, h, n, w) == SliceLen(s1 * h, s1 * h + n, w)

\* The fold of the source chunks into the destination block, shared by the
\* averaging and the max tasks.  fold is "mean" or "max".
DownsampleTask(lvl, xidx, yidx, zidx, fold) ==
    LET wz == grid.z1d[zidx + 1] - grid.z0d[zidx + 1]
        wy == grid.y1d[yidx + 1] - grid.y0d[yidx + 1]
        wx == grid.x1d[xidx + 1] - grid.x0d[xidx + 1]
        hx == cx \div 2
        hy == cy \div 2
        hz == cz \div 2
        srcs == SourceNeighbours(xidx, yidx, zidx)
        readable(c) ==
            /\ SourceIndexed(xidx, yidx, zidx, c)
            /\ SourceAddress(lvl, xidx, yidx, zidx, c) \in DOMAIN store
            /\ SourceAddress(lvl, xidx, yidx, zidx, c) \notin unreadable
        src_block(c) == store[SourceAddress(lvl, xidx, yidx, zidx, c)]
        \* dsblock = src_block[offz::2, offy::2, offx::2], off = <<x, y, z>>
        dz(c, off) == dsblock_len(src_block(c).nz, off[3])
        dy(c, off) == dsblock_len(src_block(c).ny, off[2])
        dx(c, off) == dsblock_len(src_block(c).nx, off[1])
        fits(c, off) ==
            /\ Broadcasts(dz(c, off), DestLen(c[3], hz, dz(c, off), wz))
            /\ Broadcasts(dy(c, off), DestLen(c[2], hy, dy(c, off), wy))
            /\ Broadcasts(dx(c, off), DestLen(c[1], hx, dx(c, off), wx))
        covers(c, off, k, j, i) ==
            /\ k >= DestLo(c[3], hz, wz)
            /\ k < DestLo(c[3], hz, wz) + DestLen(c[3], hz, dz(c, off), wz)
            /\ j >= DestLo(c[2], hy, wy)
            /\ j < DestLo(c[2], hy, wy) + DestLen(c[2], hy, dy(c, off), wy)
            /\ i >= DestLo(c[1], hx, wx)
            /\ i < DestLo(c[1], hx, wx) + DestLen(c[1], hx, dx(c, off), wx)
        \* the dsblock element added to block[k, j, i]
        value(c, off, k, j, i) ==
            src_block(c).data[<<off[3] + 2 * (k - DestLo(c[3], hz, wz)),
                                off[2] + 2 * (j - DestLo(c[2], hy, wy)),
                                off[1] + 2 * (i - DestLo(c[1], hx, wx))>>]
        terms(k, j, i) ==
            {t \in srcs \X (Bits \X Bits \X Bits) :
                covers(t[1], t[2], k, j, i)}
        voxel(k, j, i) ==
            LET T == terms(k, j, i)
                f == [t \in T |-> value(t[1], t[2], k, j, i)]
                hits == Cardinality(T)
            IN  IF fold = "max" THEN MaxOver(T, f)
                ELSE IF hits > 0 THEN SumOver(T, f) \div hits
                ELSE 0
        ok == /\ wz >= 0 /\ wy >= 0 /\ wx >= 0
              /\ \A c \in srcs :
                    /\ readable(c)
                    /\ \A off \in Bits \X Bits \X Bits : fits(c, off)
    IN  [ok |-> ok,
         nz |-> wz, ny |-> wy, nx |-> wx,
         data |-> IF ok
                  THEN [p \in (0..(wz-1)) \X (0..(wy-1)) \X (0..(wx-1))
                           |-> voxel(p[1], p[2], p[3])]
                  ELSE <<>>]

\* .astype(dtype) of a uint64 value
astype(v) == v % DTypeRange

\* Stack.write_one_level_n: averages, whatever the volume's type, writes
\* block[:, :y1d - y0d, :x1d - x0d].astype(dtype)
Stack_write_one_level_n(lvl, xidx, yidx, zidx) ==
    LET t == DownsampleTask(lvl, xidx, yidx, zidx, "mean")
    IN  [ok |-> t.ok,
         writes |->
            IF ~t.ok THEN {}
            ELSE {[addr |-> sfname(lvl,
                            grid.x0d[xidx + 1], grid.x1d[xidx + 1],
                            grid.y0d[yidx + 1], grid.y1d[yidx + 1],
                            grid.z0d[zidx + 1], grid.z1d[zidx + 1]),
                   block |-> MakeBlock(
                       t.nz,
                       SliceLen(0, grid.y1d[yidx + 1] - grid.y0d[yidx + 1],
                                t.ny),
                       SliceLen(0, grid.x1d[xidx + 1] - grid.x0d[xidx + 1],
                                t.nx),
                       LAMBDA k, j, i : astype(t.data[<<k, j, i>>])),
                   seq |-> 1]}]

\* BlockfsStack.write_one_level_n (image volumes): averages
Blockfs_write_one_level_n(lvl, xidx, yidx, zidx) ==
    LET t == DownsampleTask(lvl, xidx, yidx, zidx, "mean")
    IN  [ok |-> t.ok,
         writes |->
            IF ~t.ok THEN {}
            ELSE {[addr |-> write_block(lvl, grid.x0d[xidx + 1],
                                        grid.y0d[yidx + 1],
                                        grid.z0d[zidx + 1]),
                   block |-> [nz |-> t.nz, ny |-> t.ny, nx |-> t.nx,
                              data |-> t.data],
                   seq |-> 1]}]

\* BlockfsStack.write_stack_level_n (segmentation volumes): element-wise max
write_stack_level_n(lvl, xidx, yidx, zidx) ==
    LET t == DownsampleTask(lvl, xidx, yidx, zidx, "max")
    IN  [ok |-> t.ok,
         writes |->
            IF ~t.ok THEN {}
            ELSE {[addr |-> write_block(lvl, grid.x0d[xidx + 1],
                                        grid.y0d[yidx + 1],
                                        grid.z0d[zidx + 1]),
                   block |-> [nz |-> t.nz, ny |-> t.ny, nx |-> t.nx,
                              data |-> t.data],
                   seq |-> 1]}]

\* a task whose block is marked with the number of tasks still pending
LevelNTask_SeesPending(lvl, xidx, yidx, zidx) ==
    LET t == Blockfs_write_one_level_n(lvl, xidx, yidx, zidx)
    IN  [ok |-> t.ok,
         writes |->
            {[w EXCEPT !.block.data =
                 [p \in DOMAIN w.block.data |->
                     astype(w.block.data[p] + Cardinality(futures))]] :
                w \in t.writes}]

\* the task function write_level_n hands to the pool
LevelNTask(lvl, xidx, yidx, zidx) ==
    IF format = "tiff" THEN Stack_write_one_level_n(lvl, xidx, yidx, zidx)
    ELSE IF ptype = "image"
         THEN Blockfs_write_one_level_n(lvl, xidx, yidx, zidx)
         ELSE write_stack_level_n(lvl, xidx, yidx, zidx)

(***************************************************************************)
(* client.py: the manifest's scales.                                       *)
(***************************************************************************)
\* Info.get_scale: a scalar level l asks for the key "l_l_l"; the first
\* scale with that key is returned, and KeyError raised when there is none
\* a lookup that falls back to the first scale
get_scale_Fallback(lvl) ==
    LET key == <<lvl, lvl, lvl>>
        hits == {n \in DOMAIN info.scales : info.scales[n].key = key}
    IN  [raised |-> "no",
         scale |-> info.scales[IF hits = {} THEN 1
                               ELSE CHOOSE n \in hits : TRUE]]

get_scale(lvl) ==
    LET key == <<lvl, lvl, lvl>>
        hits == {n \in DOMAIN info.scales : info.scales[n].key = key}
    IN  IF hits = {} THEN [raised |-> "KeyError"]
        ELSE [raised |-> "no",
              scale |-> info.scales[CHOOSE n \in hits :
                                       \A m \in hits : n <= m]]

(***************************************************************************)
(* client.py: read_chunk.                                                  *)
(***************************************************************************)
\* the chunk grid taken to start at 0 whatever the voxel_offset
_chunk_start_FromZero(coord, offset, stride) == coord - (coord % stride)

_chunk_start(coord, offset, stride) ==
    IF coord < offset THEN offset
    ELSE coord - ((coord - offset) % stride)

\* the end of a chunk not clipped to the end of the volume
_chunk_end_NotClipped(coord, offset, stride, end) ==
    _chunk_start(coord, offset, stride) + stride

_chunk_end(coord, offset, stride, end) ==
    LET r == _chunk_start(coord, offset, stride) + stride
    IN  IF r > end THEN end ELSE r

\* range(start, stop, step) for step > 0
Range(start, stop, step) ==
    {start + k * step :
        k \in 0..(IF stop <= start THEN -1
                  ELSE (stop - start - 1) \div step)}

NoChunk == [ok |-> FALSE, nz |-> 0, ny |-> 0, nx |-> 0, data |-> <<>>]

\* What the HTTP server at the URL answers for a chunk address (tests'
\* MockUrlOpen): it refuses an address that is no chunk of the scale's grid
\* and serves the voxels data[z0 - zoff : z1 - zoff, ...] otherwise.
MockUrlOpen(scale, bx0, bx1, by0, by1, bz0, bz1) ==
    LET off == scale.voxel_offset
        size == scale.size
        cs == scale.chunk_sizes
        valid(b0, b1, a) ==
            /\ b0 >= off[a]
            /\ b1 <= off[a] + size[a]
            /\ (b0 - off[a]) % cs[a] = 0
            /\ \/ b1 - b0 = cs[a]
               \/ b1 = off[a] + size[a] /\ b0 > off[a] + size[a] - cs[a]
    IN  IF valid(bx0, bx1, 1) /\ valid(by0, by1, 2) /\ valid(bz0, bz1, 3)
        THEN [ok |-> TRUE] @@
             MakeBlock(bz1 - bz0, by1 - by0, bx1 - bx0,
                       LAMBDA k, j, i :
                           npstack(bz0 - off[3] + k, by0 - off[2] + j,
                                   bx0 - off[1] + i))
        ELSE NoChunk

\* the chunk read_chunk gets for an address, by the URL's kind and format
FetchChunk(scale, bx0, bx1, by0, by1, bz0, bz1) ==
    IF format = "http"
    THEN MockUrlOpen(scale, bx0, bx1, by0, by1, bz0, bz1)
    ELSE LET a == IF format = "tiff"
                  THEN <<scale.key[1], bx0, bx1, by0, by1, bz0, bz1>>
                  ELSE <<scale.key[1], bx0, by0, bz0>>
         IN  IF a \in DOMAIN store THEN [ok |-> TRUE] @@ store[a]
             ELSE NoChunk

\* One axis of the crop and copy of a fetched chunk [c0, c1) of length w
\* into the result of the query [q0, q1):
\*   if c0 < q0: chunk = chunk[q0 - c0:]; c0 = q0
\*   if c1 > q1: chunk = chunk[:q1 - c0]
\*   result[c0 - q0 : c0 - q0 + len(chunk)] = chunk
\* lo is the chunk index of the first element kept, len the length kept,
\* dlo and dlen the first index and the length of the result's slice.
CropAxis(w, c0, c1, q0, q1) ==
    LET lo == IF c0 < q0 THEN SliceIndex(q0 - c0, w) ELSE 0
        len1 == w - lo
        c0a == IF c0 < q0 THEN q0 ELSE c0
        len2 == IF c1 > q1 THEN SliceLen(0, q1 - c0a, len1) ELSE len1
    IN  [lo |-> lo, len |-> len2,
         dlo |-> SliceIndex(c0a - q0, q1 - q0),
         dlen |-> SliceLen(c0a - q0, c0a - q0 + len2, q1 - q0)]

\* Once({F(v) : v \in {e}}) is F(e), with e computed once
Once(S) == CHOOSE r \in S : TRUE

\* One pass of read_chunk's loop: the chunk fetched for the address from
\* c = <<x0c, y0c, z0c>> to d = <<x1c, y1c, z1c>>, and where its crop goes
\* in the result of the query q.
ChunkCopy(q, c, d, chunk) ==
    [c |-> c,
     ok |-> chunk.ok,
     \* the HTTP answer is reshaped to the address's shape
     shaped |-> (format = "http" =>
                    /\ chunk.nz = d[3] - c[3]
                    /\ chunk.ny = d[2] - c[2]
                    /\ chunk.nx = d[1] - c[1]),
     px |-> CropAxis(chunk.nx, c[1], d[1], q.x0, q.x1),
     py |-> CropAxis(chunk.ny, c[2], d[2], q.y0, q.y1),
     pz |-> CropAxis(chunk.nz, c[3], d[3], q.z0, q.z1),
     data |-> chunk.data]

\* every address ending a whole chunk after its start
chunk_addresses_FullChunks(scale, q) ==
    LET offset == scale.voxel_offset
        stride == scale.chunk_sizes
        end == [a \in 1..3 |-> offset[a] + scale.size[a]]
    IN  {[c |-> c, d |-> <<c[1] + stride[1], c[2] + stride[2],
                           c[3] + stride[3]>>] :
            c \in Range(_chunk_start(q.x0, offset[1], stride[1]),
                        _chunk_end(q.x1, offset[1], stride[1], end[1]),
                        stride[1])
                    \X Range(_chunk_start(q.y0, offset[2], stride[2]),
                             _chunk_end(q.y1, offset[2], stride[2], end[2]),
                             stride[2])
                    \X Range(_chunk_start(q.z0, offset[3], stride[3]),
                             _chunk_end(q.z1, offset[3], stride[3], end[3]),
                             stride[3])}

\* the addresses of the loop over
\* range(x0d, x1d, stride[0]) x range(y0d, y1d, stride[1]) x range(z0d, ...):
\* c = <<x0c, y0c, z0c>> and d = <<x1c, y1c, z1c>>
chunk_addresses(scale, q) ==
    LET offset == scale.voxel_offset
        stride == scale.chunk_sizes
        end == [a \in 1..3 |-> offset[a] + scale.size[a]]
        x0d == _chunk_start(q.x0, offset[1], stride[1])
        x1d == _chunk_end(q.x1, offset[1], stride[1], end[1])
        y0d == _chunk_start(q.y0, offset[2], stride[2])
        y1d == _chunk_end(q.y1, offset[2], stride[2], end[2])
        z0d == _chunk_start(q.z0, offset[3], stride[3])
        z1d == _chunk_end(q.z1, offset[3], stride[3], end[3])
    IN  {[c |-> c, d |-> <<Min(x1d, c[1] + stride[1]),
                           Min(y1d, c[2] + stride[2]),
                           Min(z1d, c[3] + stride[3])>>] :
            c \in Range(x0d, x1d, stride[1])
                    \X Range(y0d, y1d, stride[2])
                    \X Range(z0d, z1d, stride[3])}

\* the passes of the loop: each address fetched and its chunk cropped
ChunkCopies(scale, q) ==
    UNION {{ChunkCopy(q, a.c, a.d, chunk) :
               chunk \in {FetchChunk(scale, a.c[1], a.d[1], a.c[2],
                                     a.d[2], a.c[3], a.d[3])}} :
           a \in chunk_addresses(scale, q)}

\* the result once every pass has run: each crop assigned to its slice of
\* the zero array, a later pass over an earlier one
Assembled(q, copies) ==
    LET fits(p) ==
            /\ p.shaped
            /\ Broadcasts(p.pz.len, p.pz.dlen)
            /\ Broadcasts(p.py.len, p.py.dlen)
            /\ Broadcasts(p.px.len, p.px.dlen)
        covers(p, k, j, i) ==
            /\ p.pz.dlo <= k /\ k < p.pz.dlo + p.pz.dlen
            /\ p.py.dlo <= j /\ j < p.py.dlo + p.py.dlen
            /\ p.px.dlo <= i /\ i < p.px.dlo + p.px.dlen
        \* itertools.product: X outermost, Z innermost
        later(c, d) ==
            \/ c[1] > d[1]
            \/ c[1] = d[1] /\ c[2] > d[2]
            \/ c[1] = d[1] /\ c[2] = d[2] /\ c[3] >= d[3]
        from(p, k, j, i) ==
            p.data[<<p.pz.lo + (k - p.pz.dlo), p.py.lo + (j - p.py.dlo),
                     p.px.lo + (i - p.px.dlo)>>]
        voxel(k, j, i) ==
            IF \E p \in copies : covers(p, k, j, i)
            THEN from(CHOOSE p \in copies :
                         /\ covers(p, k, j, i)
                         /\ \A r \in copies :
                               covers(r, k, j, i) => later(p.c, r.c),
                      k, j, i)
            ELSE 0
    IN  IF \E p \in copies : ~p.ok THEN [status |-> "URLError"]
        ELSE IF \E p \in copies : ~fits(p) THEN [status |-> "ValueError"]
        ELSE [status |-> "ok", dtype |-> info.data_type] @@
             MakeBlock(q.z1 - q.z0, q.y1 - q.y0, q.x1 - q.x0, voxel)

read_chunk(lvl, qx0, qx1, qy0, qy1, qz0, qz1) ==
    LET got == get_scale(lvl)
    IN  IF got.raised # "no" THEN [status |-> got.raised]
        \* np.zeros of a negative dimension
        ELSE IF qz1 - qz0 < 0 \/ qy1 - qy0 < 0 \/ qx1 - qx0 < 0
        THEN [status |-> "ValueError"]
        ELSE Once(UNION {{Assembled(a.q, copies) :
                             copies \in {ChunkCopies(a.scale, a.q)}} :
                         a \in {[scale |-> got.scale,
                                 q |-> [x0 |-> qx0, x1 |-> qx1,
                                        y0 |-> qy0, y1 |-> qy1,
                                        z0 |-> qz0, z1 |-> qz1]]}})

(***************************************************************************)
(* client.py: ArrayReader.  A key is <<kz, ky, kx>>, each item a slice     *)
(* [start, stop, step] or an integer index; a part of a slice is None when *)
(* omitted and Some(v) when written.                                       *)
(***************************************************************************)
None == <<>>

Some(v) == <<v>>

Slice(start, stop, step) ==
    [kind |-> "slice", start |-> start, stop |-> stop, step |-> step]

Index(idx) == [kind |-> "int", idx |-> idx]

\* __getitem__'s s(idx, axis) and e(idx, axis); n is self.shape[axis]
s(idx, n) ==
    IF idx = None THEN 0 ELSE IF idx[1] < 0 THEN n + idx[1] ELSE idx[1]

e(idx, n) ==
    IF idx = None THEN n ELSE IF idx[1] < 0 THEN n + idx[1] ELSE idx[1]

\* len(a[::step]) for an axis of length n, and the index a[::step][t] takes
StepLen(n, step) ==
    IF step = None THEN n
    ELSE IF step[1] > 0 THEN (n + step[1] - 1) \div step[1]
    ELSE (n - step[1] - 1) \div (0 - step[1])

StepIndex(n, step, t) ==
    IF step = None THEN t
    ELSE IF step[1] > 0 THEN t * step[1]
    ELSE (n - 1) + t * step[1]

\* block[::zs, ::ys, ::xs] of what read_chunk returned; the axes indexed by
\* an integer are then dropped (squish)
Subsampled(block, step, squish) ==
    IF block.status # "ok" THEN block
    ELSE IF \E a \in 1..3 : step[a] = Some(0)
    THEN [status |-> "ValueError"]
    ELSE [status |-> "ok", dtype |-> block.dtype, squish |-> squish] @@
         MakeBlock(StepLen(block.nz, step[1]),
                   StepLen(block.ny, step[2]),
                   StepLen(block.nx, step[3]),
                   LAMBDA k, j, i :
                       block.data[<<StepIndex(block.nz, step[1], k),
                                    StepIndex(block.ny, step[2], j),
                                    StepIndex(block.nx, step[3], i)>>])

\* ArrayReader(url, format, level)[key]
getitem(lvl, key) ==
    LET got == get_scale(lvl)
    IN  IF got.raised # "no" THEN [status |-> got.raised]
        ELSE
        LET size == got.scale.size
            \* self.shape = scale.shape[::-1]: axis 0 is Z
            shape == <<size[3], size[2], size[1]>>
            squish == [a \in 1..3 |-> key[a].kind = "int"]
            lo == [a \in 1..3 |->
                     IF squish[a] THEN s(Some(key[a].idx), shape[a])
                     ELSE s(key[a].start, shape[a])]
            hi == [a \in 1..3 |->
                     IF squish[a] THEN lo[a] + 1
                     ELSE e(key[a].stop, shape[a])]
            step == [a \in 1..3 |->
                       IF squish[a] THEN Some(1) ELSE key[a].step]
            \* read_chunk is called once with the resolved bounds, and its
            \* result is then subsampled
            called == {read_chunk(lvl, b.x0, b.x1, b.y0, b.y1, b.z0, b.z1) :
                         b \in {[x0 |-> lo[3], x1 |-> hi[3],
                                 y0 |-> lo[2], y1 |-> hi[2],
                                 z0 |-> lo[1], z1 |-> hi[1]]}}
        IN  Once({Subsampled(block, p.step, p.squish) :
                     block \in called,
                     p \in {[step |-> step, squish |-> squish]}})

(***************************************************************************)
(* client.py: DANDIArrayReader.  urls is the list of source volumes; a     *)
(* source is [transforms, shape, fill]: the ZOffset, YOffset, XOffset of   *)
(* its transforms.json (its sidecar holds no ChunkTransformMatrix), the    *)
(* shape <<nz, ny, nx>> of its ArrayReader and what its voxels hold.       *)
(* Sources are numbered from 1 here, and from 0 in the arrays a and b.     *)
(***************************************************************************)
FlatValue == DTypeRange - 1

\* array_readers[idx][k, j, i] for an index inside the source's shape
array_reader(idx, k, j, i) ==
    IF urls[idx].fill = "flat" THEN FlatValue ELSE npstack(k, j, i)

\* self.offsets[idx] = <<z, y, x>>, each offset floor-divided by the level
offsets(idx, lvl) ==
    [a \in 1..3 |-> urls[idx].transforms[a] \div lvl]

dandi_x0(idx) == offsets(idx, 1)[3]
dandi_x1(idx) == dandi_x0(idx) + urls[idx].shape[3]
dandi_y0(idx) == offsets(idx, 1)[2]
dandi_y1(idx) == dandi_y0(idx) + urls[idx].shape[2]
dandi_z0(idx) == offsets(idx, 1)[1]
dandi_z1(idx) == dandi_z0(idx) + urls[idx].shape[1]

\* DANDIArrayReader.shape
dandi_shape ==
    <<MaxOver(1..Len(urls), [idx \in 1..Len(urls) |-> dandi_z1(idx)]),
      MaxOver(1..Len(urls), [idx \in 1..Len(urls) |-> dandi_y1(idx)]),
      MaxOver(1..Len(urls), [idx \in 1..Len(urls) |-> dandi_x1(idx)])>>

\* get(idx, ...) returns None when the source does not meet the rectangle
get_is_None(idx, q) ==
    \/ dandi_x0(idx) >= q.x1 \/ q.x0 >= dandi_x1(idx)
    \/ dandi_y0(idx) >= q.y1 \/ q.y0 >= dandi_y1(idx)
    \/ dandi_z0(idx) >= q.z1 \/ q.z0 >= dandi_z1(idx)

\* get(idx, ...)[0][k, j, i]: zero, plus the source's voxel where the
\* rectangle clipped to the source covers the output voxel
get_data(idx, q, k, j, i) ==
    LET x0a == Max(dandi_x0(idx), q.x0)
        x1a == Min(dandi_x1(idx), q.x1)
        y0a == Max(dandi_y0(idx), q.y0)
        y1a == Min(dandi_y1(idx), q.y1)
        z0a == Max(dandi_z0(idx), q.z0)
        z1a == Min(dandi_z1(idx), q.z1)
    IN  IF /\ z0a - q.z0 <= k /\ k < z1a - q.z0
           /\ y0a - q.y0 <= j /\ j < y1a - q.y0
           /\ x0a - q.x0 <= i /\ i < x1a - q.x0
        THEN array_reader(idx, (z0a - dandi_z0(idx)) + (k - (z0a - q.z0)),
                               (y0a - dandi_y0(idx)) + (j - (y0a - q.y0)),
                               (x0a - dandi_x0(idx)) + (i - (x0a - q.x0)))
        ELSE 0

\* get(idx, ...)[1][k, j, i]: the least of the distances to the six faces
get_distance_XOnly(idx, q, k, j, i) ==
    Min((q.x0 - dandi_x0(idx)) + i, (dandi_x1(idx) - q.x0 - 1) - i)

get_distance(idx, q, k, j, i) ==
    LET nx == (q.x0 - dandi_x0(idx)) + i
        fx == (dandi_x1(idx) - q.x0 - 1) - i
        ny == (q.y0 - dandi_y0(idx)) + j
        fy == (dandi_y1(idx) - q.y0 - 1) - j
        nz == (q.z0 - dandi_z0(idx)) + k
        fz == (dandi_z1(idx) - q.z0 - 1) - k
    IN  Min(Min(nx, fx), Min(Min(ny, fy), Min(nz, fz)))

\* the sources get() returned something for, in the order of the loop:
\* datas[t - 1] and distances[t - 1] belong to source Gathered(q)[t]
Gathered(q) ==
    SelectSeq([idx \in 1..Len(urls) |-> idx],
              LAMBDA idx : ~get_is_None(idx, q))

\* a and b are uint8 arrays
IndexRange == 256

NoRank == [a |-> 0, ad |-> 0 - 1, b |-> 0, bd |-> 0 - 1]

\* one pass of the loop at one voxel: the source numbered i, at distance d
RankStep_KeepFirst(r, i, d) ==
    IF r.ad < 0 /\ d >= 0
    THEN [a |-> i % IndexRange, ad |-> d, b |-> r.a, bd |-> r.ad]
    ELSE r

RankStep(r, i, d) ==
    IF d >= Max(0, r.ad)
    THEN [a |-> i % IndexRange, ad |-> d, b |-> r.a, bd |-> r.ad]
    ELSE IF d >= Max(0, r.bd)
    THEN [r EXCEPT !.b = i % IndexRange, !.bd = d]
    ELSE r

\* a, ad, b, bd at the voxel after the first t gathered sources
RECURSIVE Rank(_, _, _, _, _, _)
Rank(gathered, t, q, k, j, i) ==
    IF t = 0 THEN NoRank
    ELSE Once({RankStep(r, t - 1, get_distance(gathered[t], q, k, j, i)) :
                  r \in {Rank(gathered, t - 1, q, k, j, i)}})

\* the plain mean of the two values
Blend_Mean(da, db, va, vb, short) == (va + vb) \div 2

\* sin(arctan2(da, db)) ** 2 * va + cos(arctan2(da, db)) ** 2 * vb, stored
\* into the integer result.  The weights are da^2 and db^2 over their sum.
\* arctan2(0, db) is 0, whose sine is 0 and cosine 1; the cosine of
\* arctan2(da, 0) is below 1e-16 and its square is lost in the sum.
\* Otherwise the product is rounded floating point: where the exact value
\* is a whole number the computed one is that number or just below it
\* (short = 1), and what is stored is its integer part.
Blend(da, db, va, vb, short) ==
    IF da = 0 THEN vb
    ELSE IF db = 0 THEN va
    ELSE LET num == da * da * va + db * db * vb
             den == da * da + db * db
         IN  IF num % den = 0 /\ num > 0
             THEN (num \div den) - short
             ELSE num \div den

\* result[k, j, i] from the ranks of the voxel
Stitched(gathered, r, q, k, j, i, short) ==
    IF r.bd >= 0
    THEN Blend(r.ad, r.bd,
               get_data(gathered[r.a + 1], q, k, j, i),
               get_data(gathered[r.b + 1], q, k, j, i), short) % DTypeRange
    ELSE IF r.ad >= 0
    THEN get_data(gathered[r.a + 1], q, k, j, i)
    ELSE 0

\* DANDIArrayReader.read_chunk(x0, x1, y0, y1, z0, z1)
dandi_read_chunk(q, short) ==
    IF q.x1 < q.x0 \/ q.y1 < q.y0 \/ q.z1 < q.z0
    THEN [status |-> "ValueError"]
    ELSE
    [status |-> "ok", dtype |-> "uint16"] @@
    Once({MakeBlock(q.z1 - q.z0, q.y1 - q.y0, q.x1 - q.x0,
                    LAMBDA k, j, i :
                        Once({Stitched(gathered, r, q, k, j, i, short) :
                                 r \in {Rank(gathered, Len(gathered),
                                             q, k, j, i)}})) :
             gathered \in {Gathered(q)}})

(***************************************************************************)
(* ims2precomputed.py: write_level_1 hands the pool one task per cube of   *)
(* 256 voxels a side; a task writes the cube's blocks of 64 a side.  The   *)
(* volume is shape = <<z, y, x>>.                                          *)
(***************************************************************************)
ImsCube == 256
ImsBlock == 64

\* itertools.product(x0s, y0s, z0s): the tasks <<x0, y0, z0>>
ims_tasks(shape) ==
    Range(0, shape[3], ImsCube) \X Range(0, shape[2], ImsCube)
        \X Range(0, shape[1], ImsCube)

\* write_one(x0, y0, z0): the origins of the blocks it writes
ims_write_one(shape, t) ==
    Range(t[1], Min(t[1] + ImsCube, shape[3]), ImsBlock)
        \X Range(t[2], Min(t[2] + ImsCube, shape[2]), ImsBlock)
        \X Range(t[3], Min(t[3] + ImsCube, shape[1]), ImsBlock)

(***************************************************************************)
(* main: write_info_file, write_level_1, then write_level_n for levels     *)
(* 2..n_levels.  A write_level_* call hands all its tasks to the pool,     *)
(* waits for every future and returns, or raises what a future raised.     *)
(***************************************************************************)
NoResult == [status |-> "none"]
NoRequest == [op |-> "none"]

\* What a build fails to read: nothing, source planes (named <<0, z>>),
\* or the first chunk of a level that a later level is built from.  The
\* builds that fail to read are those of the volumes of MinorExtent voxels
\* along X in X chunks of one voxel.
Unreadables ==
    {{}}
    \cup {{<<0, z>>} : z \in 0..(z_extent - 1)}
    \cup {{<<0, z>> : z \in 0..(z_extent - 1)}}
    \cup {{ChunkAddress(lvl, x0(lvl)[1], x1(lvl)[1], y0(lvl)[1], y1(lvl)[1],
                         z0(lvl)[1], z1(lvl)[1])} : lvl \in 1..(n_levels - 1)}

InitBuild ==
    /\ x_extent \in 1..MaxExtent
    /\ y_extent \in 1..MinorExtent
    /\ z_extent \in 1..MinorExtent
    /\ chunksize \in (1..MinorChunk) \X (1..MinorChunk) \X (1..MaxChunk)
    /\ ptype \in {"image", "segmentation"}
    /\ format \in {"tiff", "blockfs"}
    /\ n_levels \in 1..MaxLevels
    /\ urls = <<>>
    /\ unreadable \in Unreadables
    /\ unreadable # {} => x_extent = MinorExtent /\ chunksize[3] = 1
    /\ pc = "start"
    /\ level = 0
    /\ futures = {}
    /\ grid = NoArgs
    /\ info = NoInfo
    /\ store = <<>>
    /\ nwrites = <<>>
    /\ failed = FALSE
    /\ errors = {}
    /\ request = NoRequest
    /\ result = NoResult

\* stack.write_info_file(args.levels, voxel_size)
WriteInfoFile ==
    /\ pc = "start"
    /\ info' = write_info_file(n_levels)
    /\ pc' = "level_1"
    /\ UNCHANGED <<config, level, futures, grid, store, nwrites, failed,
                   errors, request, result>>

\* the tasks write_level_1 and write_level_n(lvl) append to futures
Level1Tasks == Zip(z0(1), z1(1))

LevelNTasks(lvl) ==
    (0..(n_x(lvl) - 1)) \X (0..(n_y(lvl) - 1)) \X (0..(n_z(lvl) - 1))

Submitted == IF level = 1 THEN Level1Tasks ELSE LevelNTasks(level)

\* t was appended to futures before u: the bands in zip(z0, z1) order, the
\* index triples in itertools.product order
Before(t, u) ==
    IF level = 1 THEN t[1] < u[1]
    ELSE \/ t[1] < u[1]
         \/ t[1] = u[1] /\ t[2] < u[2]
         \/ t[1] = u[1] /\ t[2] = u[2] /\ t[3] < u[3]

\* write_level_1 up to the loop over the futures: one task per Z band
WriteLevel1 ==
    /\ pc = "level_1"
    /\ level' = 1
    /\ grid' = Level1Args
    /\ futures' = Level1Tasks
    /\ pc' = "pool"
    /\ UNCHANGED <<config, info, store, nwrites, failed, errors, request,
                   result>>

\* the band's files, self.files[z0a:z1a], are read one by one into img
\* before the loop over the chunks: a read that raises ends the task
read_planes_NeverRaises(z0a, z1a) == TRUE

read_planes(z0a, z1a) ==
    \A z \in z0a..(Min(z1a, z_extent) - 1) : <<0, z>> \notin unreadable

\* A Z-band task runs.  Stack's bands run on the pool in any order;
\* BlockfsStack.write_level_1 runs them itself, one after the other, and
\* the first that raises ends the loop.
WriteOneLevel1 ==
    /\ pc = "pool"
    /\ level = 1
    /\ \E t \in futures :
        /\ format = "blockfs" =>
              /\ \A u \in futures : t[1] <= u[1]
              /\ errors = {}
        /\ IF read_planes(t[1], t[2])
           THEN /\ \E W \in {write_one_level_1(t[1], t[2])} :
                      /\ store' = StoreAfter(W)
                      /\ nwrites' = CountAfter(W)
                /\ UNCHANGED <<failed, errors>>
           ELSE /\ failed' = TRUE
                /\ errors' = errors \cup {t}
                /\ UNCHANGED <<store, nwrites>>
        /\ futures' = futures \ {t}
    /\ UNCHANGED <<config, pc, level, grid, info, request, result>>

\* write_level_n up to the loop over the futures: one task per index triple
\* of range(n_x(level)) x range(n_y(level)) x range(n_z(level))
WriteLevelN ==
    /\ pc = "next_level"
    /\ level' = level + 1
    /\ grid' = LevelNArgs(level + 1)
    /\ futures' = LevelNTasks(level + 1)
    /\ pc' = "pool"
    /\ UNCHANGED <<config, info, store, nwrites, failed, errors, request,
                   result>>

\* A destination-chunk task runs on the pool
WriteOneLevelN ==
    /\ pc = "pool"
    /\ level > 1
    /\ \E t \in futures :
        \E r \in {LevelNTask(level, t[1], t[2], t[3])} :
            /\ store' = StoreAfter(r.writes)
            /\ nwrites' = CountAfter(r.writes)
            /\ failed' = (failed \/ ~r.ok)
            /\ errors' = IF r.ok THEN errors ELSE errors \cup {t}
            /\ futures' = futures \ {t}
    /\ UNCHANGED <<config, pc, level, grid, info, request, result>>

\* every future.get() has returned: the write_level_* call returns to main
LevelReturns_Early ==
    /\ pc = "pool"
    /\ errors = {}
    /\ pc' = IF level < n_levels THEN "next_level" ELSE "done"
    /\ UNCHANGED <<config, level, futures, grid, info, store, nwrites,
                   failed, errors, request, result>>

LevelReturns ==
    /\ pc = "pool"
    /\ futures = {}
    /\ errors = {}
    /\ pc' = IF level < n_levels THEN "next_level" ELSE "done"
    /\ UNCHANGED <<config, level, futures, grid, info, store, nwrites,
                   failed, errors, request, result>>

\* main waits for the futures in the order it appended them: when every
\* future before t has returned, future.get() of a task t that raised
\* raises in main.  Leaving the with block terminates the pool, the tasks
\* still in futures never run, and the exception ends main.
LevelRaises_AnyFailure ==
    /\ pc = "pool"
    /\ \E t \in errors :
          result' = [status |-> "raised", level |-> level, task |-> t]
    /\ pc' = "raised"
    /\ UNCHANGED <<config, level, futures, grid, info, store, nwrites,
                   failed, errors, request>>

LevelRaises_Continues ==
    /\ pc = "pool"
    /\ \E t \in errors :
          /\ \A u \in Submitted :
                Before(u, t) => u \notin futures /\ u \notin errors
          /\ result' = [status |-> "raised", level |-> level, task |-> t]
    /\ pc' = IF level < n_levels THEN "next_level" ELSE "raised"
    /\ errors' = {}
    /\ failed' = FALSE
    /\ UNCHANGED <<config, level, futures, grid, info, store, nwrites,
                   request>>

LevelRaises ==
    /\ pc = "pool"
    /\ \E t \in errors :
          /\ \A u \in Submitted :
                Before(u, t) => u \notin futures /\ u \notin errors
          /\ result' = [status |-> "raised", level |-> level, task |-> t]
    /\ pc' = "raised"
    /\ UNCHANGED <<config, level, futures, grid, info, store, nwrites,
                   failed, errors, request>>

\* Between two calls of main, or after the last, a client opens what is
\* built so far and reads all of level 1:
\* ArrayReader(url, format=format, level=1)[:, :, :]
ReadBack ==
    /\ level >= 1
    /\ pc \in {"next_level", "done"}
    /\ pc' = "read_back"
    /\ request' = [op |-> "getitem", level |-> 1,
                   key |-> <<Slice(None, None, None), Slice(None, None, None),
                             Slice(None, None, None)>>]
    /\ result' = getitem(1, <<Slice(None, None, None),
                              Slice(None, None, None),
                              Slice(None, None, None)>>)
    /\ UNCHANGED <<config, level, futures, grid, info, store, nwrites,
                   failed, errors>>

NextBuild ==
    \/ WriteInfoFile
    \/ WriteLevel1
    \/ WriteOneLevel1
    \/ WriteLevelN
    \/ WriteOneLevelN
    \/ LevelReturns
    \/ LevelRaises
    \/ ReadBack

SpecBuild == InitBuild /\ [][NextBuild]_vars

\* a step of main or of a worker of its pool
BuildStep ==
    \/ WriteInfoFile
    \/ WriteLevel1
    \/ WriteOneLevel1
    \/ WriteLevelN
    \/ WriteOneLevelN
    \/ LevelReturns
    \/ LevelRaises

\* Builds of image volumes of MinorExtent voxels a side, with the smaller
\* chunks.  The pool's workers run every task handed to them for as
\* long as the pool lives, and main gets past every future.get() whose task
\* has ended: the build does not stop while a step of it is possible.
InitBuildFair ==
    /\ InitBuild
    /\ x_extent = MinorExtent
    /\ y_extent = MinorExtent
    /\ z_extent = MinorExtent
    /\ ptype = "image"
    /\ chunksize[2] = 1
    /\ chunksize[3] <= MinorChunk

SpecBuildFair == InitBuildFair /\ [][NextBuild]_vars /\ WF_vars(BuildStep)

(***************************************************************************)
(* A client of a served volume: the manifest is what the server publishes, *)
(* the chunks are what it answers (MockUrlOpen).  One axis of the volume   *)
(* takes every size, chunk size and offset up to the bounds, the other two *)
(* take one of PlainAxes.                                                  *)
(***************************************************************************)
Axis(size, chunk, offset) == [size |-> size, chunk |-> chunk, offset |-> offset]

VariedAxes ==
    {Axis(n, c, o) : n \in 1..MaxSize, c \in 1..MaxChunk, o \in 0..MaxOffset}

PlainAxes == {Axis(2, 1, MaxOffset), Axis(1, 2, 0)}

\* the manifest of a volume with the axes ax = <<x, y, z>>: the scales 1
\* and 2, as write_info_file lays them out
ServedInfo(ax) ==
    [data_type |-> "uint16",
     type |-> "image",
     scales |->
        [n \in 1..2 |->
            [chunk_sizes |-> <<ax[1].chunk, ax[2].chunk, ax[3].chunk>>,
             key |-> <<resolution(n), resolution(n), resolution(n)>>,
             size |-> <<HalveTimes(ax[1].size, n - 1),
                        HalveTimes(ax[2].size, n - 1),
                        HalveTimes(ax[3].size, n - 1)>>,
             voxel_offset |-> <<ax[1].offset, ax[2].offset,
                                ax[3].offset>>]]]

InitRead ==
    /\ x_extent = 1 /\ y_extent = 1 /\ z_extent = 1
    /\ chunksize = <<1, 1, 1>>
    /\ ptype = "image"
    /\ format = "http"
    /\ n_levels = 2
    /\ urls = <<>>
    /\ unreadable = {}
    /\ pc = "client"
    /\ level = 0
    /\ futures = {}
    /\ grid = NoArgs
    /\ \E a \in 1..3, v \in VariedAxes, p \in PlainAxes, q \in PlainAxes :
          info = ServedInfo([i \in 1..3 |->
                               IF i = a THEN v
                               ELSE IF i = (a % 3) + 1 THEN p ELSE q])
    /\ store = <<>>
    /\ nwrites = <<>>
    /\ failed = FALSE
    /\ errors = {}
    /\ request = NoRequest
    /\ result = NoResult

\* the half-open intervals of one axis of a scale: within the volume and
\* not empty, anywhere up to Margin around it, and the whole axis
Inside(scale, a) ==
    LET lo == scale.voxel_offset[a]
        hi == lo + scale.size[a]
    IN  {<<p, q>> \in (lo..hi) \X (lo..hi) : p < q}

Around(scale, a) ==
    LET lo == scale.voxel_offset[a] - Margin
        hi == scale.voxel_offset[a] + scale.size[a] + Margin
    IN  (lo..hi) \X (lo..hi)

Whole(scale, a) ==
    <<scale.voxel_offset[a], scale.voxel_offset[a] + scale.size[a]>>

\* the rectangles <<x, y, z>> a client asks read_chunk for
Rectangles(scale) ==
    (Inside(scale, 1) \X Inside(scale, 2) \X Inside(scale, 3))
    \cup {<<r, Whole(scale, 2), Whole(scale, 3)>> : r \in Around(scale, 1)}
    \cup {<<Whole(scale, 1), r, Whole(scale, 3)>> : r \in Around(scale, 2)}
    \cup {<<Whole(scale, 1), Whole(scale, 2), r>> : r \in Around(scale, 3)}

\* read_chunk(url, x0, x1, y0, y1, z0, z1, level)
ReadChunk ==
    /\ pc = "client"
    /\ \E lvl \in 1..MaxLevels :
          LET got == get_scale(lvl)
          IN  \E r \in IF got.raised = "no" THEN Rectangles(got.scale)
                       ELSE {<<<<0, 1>>, <<0, 1>>, <<0, 1>>>>} :
                 /\ request' = [op |-> "read_chunk", level |-> lvl,
                                x0 |-> r[1][1], x1 |-> r[1][2],
                                y0 |-> r[2][1], y1 |-> r[2][2],
                                z0 |-> r[3][1], z1 |-> r[3][2]]
                 /\ result' = read_chunk(lvl, r[1][1], r[1][2], r[2][1],
                                         r[2][2], r[3][1], r[3][2])
    /\ pc' = "returned"
    /\ UNCHANGED <<config, level, futures, grid, info, store, nwrites,
                   failed, errors>>

\* the slices a[start:stop] of an axis of length n a client writes, with
\* either part omitted, negative, or past the end; a few steps and indices
Slices(n) ==
    LET parts == {None} \cup {Some(v) : v \in (0 - n - 1)..(n + 1)}
    IN  {Slice(b, t, None) : b \in parts, t \in parts}
        \cup {Slice(None, None, Some(k)) : k \in {2, -1}}
        \cup {Index(k) : k \in (0 - n)..(n - 1)}

Plain == Slice(None, None, None)

FewSlices(n) ==
    {Plain, Slice(Some(-1), None, None), Slice(Some(1), Some(n), None),
     Index(0)}

\* the keys <<kz, ky, kx>> a client indexes an ArrayReader of shape sh with
Keys(sh) ==
    (FewSlices(sh[1]) \X FewSlices(sh[2]) \X FewSlices(sh[3]))
    \cup {<<k, Plain, Plain>> : k \in Slices(sh[1])}
    \cup {<<Plain, k, Plain>> : k \in Slices(sh[2])}
    \cup {<<Plain, Plain, k>> : k \in Slices(sh[3])}

\* ArrayReader(url, format, level)[key]
GetItem ==
    /\ pc = "client"
    /\ \E lvl \in 1..MaxLevels :
          LET got == get_scale(lvl)
          IN  \E key \in IF got.raised = "no"
                         THEN Keys(<<got.scale.size[3], got.scale.size[2],
                                     got.scale.size[1]>>)
                         ELSE {<<Plain, Plain, Plain>>} :
                 /\ request' = [op |-> "getitem", level |-> lvl,
                                key |-> key]
                 /\ result' = getitem(lvl, key)
    /\ pc' = "returned"
    /\ UNCHANGED <<config, level, futures, grid, info, store, nwrites,
                   failed, errors>>

\* get_info(url).get_scale(level)
GetScale ==
    /\ pc = "client"
    /\ \E lvl \in 0..(MaxLevels + 1) :
          /\ request' = [op |-> "get_scale", level |-> lvl]
          /\ result' = get_scale(lvl)
    /\ pc' = "returned"
    /\ UNCHANGED <<config, level, futures, grid, info, store, nwrites,
                   failed, errors>>

NextRead ==
    \/ ReadChunk
    \/ GetScale

SpecRead == InitRead /\ [][NextRead]_vars

NextArray ==
    \/ GetItem
    \/ GetScale

SpecArray == InitRead /\ [][NextArray]_vars

(***************************************************************************)
(* A client of a stitched volume: one to three source bricks, the first at *)
(* the origin, the others of one shape and one filling, shifted along Y   *)
(* and X so that they overlap it; a brick holds a ramp of values or one    *)
(* value everywhere.                                                       *)
(***************************************************************************)
Bricks ==
    {[transforms |-> <<0, yo, xo>>, shape |-> <<MaxBrick, MaxBrick, nx>>,
      fill |-> f] :
        yo \in {0, MaxShift - 1}, xo \in {0, MaxShift},
        nx \in {MaxBrick - 2, MaxBrick}, f \in {"ramp", "flat"}}

InitStitch ==
    /\ x_extent = 1 /\ y_extent = 1 /\ z_extent = 1
    /\ chunksize = <<1, 1, 1>>
    /\ ptype = "image"
    /\ format = "ngff"
    /\ n_levels = 1
    /\ \E n \in 1..MaxSources :
          /\ urls \in [1..n -> Bricks]
          /\ urls[1].transforms = <<0, 0, 0>>
          /\ \A idx \in 2..n : /\ urls[idx].shape = urls[n].shape
                                /\ urls[idx].fill = urls[n].fill
    /\ unreadable = {}
    /\ pc = "client"
    /\ level = 0
    /\ futures = {}
    /\ grid = NoArgs
    /\ info = NoInfo
    /\ store = <<>>
    /\ nwrites = <<>>
    /\ failed = FALSE
    /\ errors = {}
    /\ request = NoRequest
    /\ result = NoResult

\* the rectangles a client asks the stitched reader for: the lines of
\* voxels along X in the first, the middle and the last plane, and boxes
\* that slide along X past the end of the volume
StitchRects ==
    {[z0 |-> k, z1 |-> k + 1, y0 |-> j, y1 |-> j + 1,
      x0 |-> 0, x1 |-> dandi_shape[3]] :
        k \in {0, dandi_shape[1] \div 2, dandi_shape[1] - 1},
        j \in 0..(dandi_shape[2] - 1)}
    \cup {[z0 |-> 2, z1 |-> 4, y0 |-> 1, y1 |-> 3, x0 |-> p, x1 |-> p + 2] :
              p \in 0..dandi_shape[3]}

\* DANDIArrayReader(urls).read_chunk(x0, x1, y0, y1, z0, z1); short is what
\* the floating point arithmetic of the platform makes of the blend
DandiReadChunk ==
    /\ pc = "client"
    /\ urls # <<>>
    /\ \E q \in StitchRects, short \in {0, 1} :
          /\ request' = [op |-> "dandi_read_chunk", short |-> short] @@ q
          /\ result' = dandi_read_chunk(q, short)
    /\ pc' = "returned"
    /\ UNCHANGED <<config, level, futures, grid, info, store, nwrites,
                   failed, errors>>

NextStitch == DandiReadChunk

SpecStitch == InitStitch /\ [][NextStitch]_vars

(***************************************************************************)
(* wsgi_webserver.py and dandi_webserver.py: serve_precomputed.  A string  *)
(* is the sequence of its characters.                                      *)
(***************************************************************************)
Digits == <<"0", "1", "2", "3", "4", "5", "6", "7", "8", "9">>

RECURSIVE Text(_)
\* "%d" % n for n >= 0
Text(n) ==
    IF n < 10 THEN <<Digits[n + 1]>>
    ELSE Text(n \div 10) \o <<Digits[(n % 10) + 1]>>

\* "%d_%d_%d" % (resolution, resolution, resolution)
KeyText(r) == Text(r) \o <<"_">> \o Text(r) \o <<"_">> \o Text(r)

\* Stack.sfname below dest, without the ".tiff": the file of the chunk with
\* the address a = sfname(...)
sfname_path(a) ==
    KeyText(a[1]) \o <<"/">> \o
    Text(a[2]) \o <<"-">> \o Text(a[3]) \o <<"_">> \o
    Text(a[4]) \o <<"-">> \o Text(a[5]) \o <<"_">> \o
    Text(a[6]) \o <<"-">> \o Text(a[7])

RECURSIVE split(_, _)
\* str.split(sep) for a separator of one character
split(str, sep) ==
    IF \A n \in DOMAIN str : str[n] # sep THEN <<str>>
    ELSE LET n == CHOOSE n \in DOMAIN str :
                      /\ str[n] = sep
                      /\ \A m \in 1..(n - 1) : str[m] # sep
         IN  <<SubSeq(str, 1, n - 1)>>
                 \o split(SubSeq(str, n + 1, Len(str)), sep)

\* int(str) returns: str is made of digits (the requests hold no sign and
\* no blank, and no "_" is left after the splits)
is_int(str) ==
    /\ str # <<>>
    /\ \A n \in DOMAIN str : \E d \in DOMAIN Digits : Digits[d] = str[n]

RECURSIVE int(_)
int(str) ==
    IF str = <<>> THEN 0
    ELSE 10 * int(SubSeq(str, 1, Len(str) - 1))
         + (CHOOSE d \in 0..9 : Digits[d + 1] = str[Len(str)])

startswith(str, prefix) ==
    /\ Len(str) >= Len(prefix)
    /\ SubSeq(str, 1, Len(prefix)) = prefix

RECURSIVE normpath(_)
\* the file a path names: the file system takes a run of "/" for one "/"
normpath(str) ==
    IF Len(str) < 2 THEN str
    ELSE IF str[1] = "/" /\ str[2] = "/" THEN normpath(Tail(str))
    ELSE <<str[1]>> \o normpath(Tail(str))

ParseFilenameError == [ok |-> FALSE]

\* wsgi_webserver.parse_filename: any ValueError is a ParseFilenameError
parse_filename(filename) ==
    LET parts == split(filename, "/")
        \* "x0, x1 = [int(x) for x in xstr.split('-')]" raises no ValueError
        is_pair(pair) ==
            /\ Len(split(pair, "-")) = 2
            /\ \A n \in 1..2 : is_int(split(pair, "-")[n])
    IN  IF Len(parts) # 2 THEN ParseFilenameError
        ELSE
        LET strs == split(parts[2], "_")
        IN  IF Len(strs) # 3 THEN ParseFilenameError
            ELSE IF \E n \in 1..3 : ~is_pair(strs[n]) THEN ParseFilenameError
            ELSE LET pairs == [n \in 1..3 |-> split(strs[n], "-")]
                 IN  [ok |-> TRUE, level |-> parts[1],
                      x0 |-> int(pairs[1][1]), x1 |-> int(pairs[1][2]),
                      y0 |-> int(pairs[2][1]), y1 |-> int(pairs[2][2]),
                      z0 |-> int(pairs[3][1]), z1 |-> int(pairs[3][2])]

\* dandi_webserver.parse_filename: the level is the first number of the
\* level key
dandi_parse_filename(filename) ==
    LET p == parse_filename(filename)
    IN  IF ~p.ok THEN ParseFilenameError
        ELSE IF ~is_int(split(p.level, "_")[1]) THEN ParseFilenameError
        ELSE [p EXCEPT !.level = int(split(p.level, "_")[1])]

\* file_not_found(dest, start_response)
file_not_found(dest) == [status |-> "404 Not found", body |-> dest]

\* start_response("200 OK", ...) and the data returned
ok_response(data) == [status |-> "200 OK", body |-> data]

\* an exception that leaves serve_precomputed
raises(error) == [status |-> "raised", error |-> error]

\* The configuration file: one source, whose directory holds what store
\* and info hold
VolumeName == <<"v">>

ServedConfig == <<[name |-> VolumeName, format |-> format]>>

InfoName == <<"i", "n", "f", "o">>
MeshInfoName == <<"m", "e", "s", "h", "/", "i", "n", "f", "o">>

\* the resolutions whose directory (array, for ngff) the volume holds
ServedResolutions == {a[1] : a \in DOMAIN store}

\* os.path.exists(os.path.join(dest, level))
level_exists(lvl) == \E r \in ServedResolutions : KeyText(r) = normpath(lvl)

\* the shape <<z, y, x>> of the array of a resolution
array_shape(r) ==
    <<(z_extent + r - 1) \div r, (y_extent + r - 1) \div r,
      (x_extent + r - 1) \div r>>

\* arr[z0:z1, y0:y1, x0:x1] on the array of a resolution, each voxel read
\* from the chunk that holds it
array_slice(r, p) ==
    LET shape == array_shape(r)
        array_voxel(rr, k, j, i) ==
            store[<<rr, i - (i % cx), j - (j % cy), k - (k % cz)>>]
                .data[<<k % cz, j % cy, i % cx>>]
    IN  MakeBlock(SliceLen(p.z0, p.z1, shape[1]),
                  SliceLen(p.y0, p.y1, shape[2]),
                  SliceLen(p.x0, p.x1, shape[3]),
                  LAMBDA k, j, i : array_voxel(r, p.z0 + k, p.y0 + j,
                                               p.x0 + i))

\* the tiff branch: the file dest/filename.tiff is served when it exists
serve_tiff(filename) ==
    LET hits == {a \in DOMAIN store : sfname_path(a) = normpath(filename)}
    IN  IF hits = {} THEN {file_not_found(filename)}
        ELSE {ok_response(store[a]) : a \in hits}

\* the zarr branch
serve_zarr(p) ==
    IF ~level_exists(p.level) THEN {file_not_found(p.level)}
    ELSE {ok_response(array_slice(r, p)) :
             r \in {r \in ServedResolutions : KeyText(r) = normpath(p.level)}}

\* the blockfs branch.  Directory.open raises when the level has no
\* directory file; read_block of a block that was never written is the
\* library's: it answers an empty block or raises.
serve_blockfs(p) ==
    IF ~level_exists(p.level) THEN {raises("FileNotFoundError")}
    ELSE UNION {IF <<r, p.x0, p.y0, p.z0>> \in DOMAIN store
                THEN {ok_response(store[<<r, p.x0, p.y0, p.z0>>])}
                ELSE {ok_response(MakeBlock(cz, cy, cx, LAMBDA k, j, i : 0)),
                      raises("IndexError")} :
                   r \in {r \in ServedResolutions :
                             KeyText(r) = normpath(p.level)}}

\* the ngff branch: the level key is parsed once more, outside of
\* parse_filename and of any try that catches ValueError
serve_ngff(p) ==
    LET lstrs == split(p.level, "_")
        \* int(np.round(np.log2(lx), 0)) for lx >= 1
        round_log2(lx) ==
            CHOOSE k \in 0..lx :
                2 ^ (2 * k) <= 2 * lx * lx /\ lx * lx < 2 ^ (2 * k + 1)
    IN  IF Len(lstrs) # 3 \/ \E n \in DOMAIN lstrs : ~is_int(lstrs[n])
        THEN {raises("ValueError")}
        ELSE IF int(lstrs[1]) = 0 THEN {raises("OverflowError")}
        ELSE
        LET r == 2 ^ round_log2(int(lstrs[1]))
            shape == array_shape(r)
        IN  IF r \notin ServedResolutions THEN {raises("KeyError")}
            ELSE {ok_response(array_slice(r,
                      [p EXCEPT !.z1 = Min(shape[1], p.z0 + cz),
                                !.y1 = Min(shape[2], p.y0 + cy),
                                !.x1 = Min(shape[3], p.x0 + cx)]))}

\* the body of the try for a source whose name the path starts with; {} when
\* the format is none of the four and the loop goes on
serve_source(source, filename) ==
    IF filename = MeshInfoName THEN {file_not_found(filename)}
    ELSE IF filename = InfoName
    THEN (IF info = NoInfo THEN {file_not_found(filename)}
          ELSE {ok_response(info)})
    ELSE IF source.format = "tiff" THEN serve_tiff(filename)
    ELSE IF source.format \in {"zarr", "blockfs", "ngff"}
    THEN UNION {IF ~p.ok THEN {file_not_found(filename)}
                ELSE IF source.format = "zarr" THEN serve_zarr(p)
                ELSE IF source.format = "blockfs" THEN serve_blockfs(p)
                ELSE serve_ngff(p) : p \in {parse_filename(filename)}}
    ELSE {}

RECURSIVE serve_sources(_, _)
\* the loop over the sources from the n-th on, and its else
serve_sources(path_info, n) ==
    IF n > Len(ServedConfig) THEN {file_not_found(path_info)}
    ELSE LET source == ServedConfig[n]
             filename == SubSeq(path_info, 3 + Len(source.name),
                                Len(path_info))
             answers == serve_source(source, filename)
         IN  IF startswith(Tail(path_info), source.name \o <<"/">>)
                    /\ answers # {}
             THEN answers
             ELSE serve_sources(path_info, n + 1)

\* wsgi_webserver.serve_precomputed(environ, start_response, config_file):
\* the answers the call can give to environ["PATH_INFO"]
serve_precomputed(path_info) ==
    IF path_info = <<"/">>
    THEN {ok_response([n \in DOMAIN ServedConfig |-> ServedConfig[n].name])}
    ELSE serve_sources(path_info, 1)

RECURSIVE dandi_serve_sources(_, _)
dandi_serve_sources(path_info, n) ==
    IF n > Len(ServedConfig) THEN {file_not_found(path_info)}
    ELSE LET source == ServedConfig[n]
             filename == SubSeq(path_info, 3 + Len(source.name),
                                Len(path_info))
             \* DANDIArrayReader(urls, level)[z0:z1, y0:y1, x0:x1]
             dandi_serve_chunk(p) ==
                 IF get_scale(p.level).raised # "no"
                 THEN {raises(get_scale(p.level).raised)}
                 ELSE {IF r.status = "ok" THEN ok_response(r)
                       ELSE raises(r.status) :
                          r \in {dandi_read_chunk(
                                     [x0 |-> p.x0, x1 |-> p.x1,
                                      y0 |-> p.y0, y1 |-> p.y1,
                                      z0 |-> p.z0, z1 |-> p.z1], short) :
                                    short \in {0, 1}}}
         IN  IF ~startswith(Tail(path_info), source.name \o <<"/">>)
             THEN dandi_serve_sources(path_info, n + 1)
             ELSE IF filename = InfoName THEN {ok_response(info)}
             ELSE UNION {IF ~p.ok THEN {file_not_found(path_info)}
                         ELSE dandi_serve_chunk(p) :
                            p \in {dandi_parse_filename(filename)}}

\* dandi_webserver.serve_precomputed
dandi_serve_precomputed(path_info) ==
    IF path_info = <<"/">>
    THEN {ok_response([n \in DOMAIN ServedConfig |-> ServedConfig[n].name])}
    ELSE dandi_serve_sources(path_info, 1)

(***************************************************************************)
(* The web servers: a volume of ServedExtent by 1 by 1 voxels in chunks of *)
(* one voxel, level 1 only, in each of the four formats, and as the one    *)
(* source of a stitched volume.  A server answers one request.             *)
(***************************************************************************)
ServedStore ==
    LET W == {[addr |-> ChunkAddress(1, x0(1)[xi], x1(1)[xi], 0, 1, 0, 1),
               block |-> Level1Block(0, 1, 0, 1, x0(1)[xi], x1(1)[xi])] :
                  xi \in 1..Len(x0(1))}
    IN  [a \in {w.addr : w \in W} |-> (CHOOSE w \in W : w.addr = a).block]

InitServe ==
    /\ x_extent = ServedExtent /\ y_extent = 1 /\ z_extent = 1
    /\ chunksize = <<1, 1, 1>>
    /\ ptype = "image"
    /\ format \in {"tiff", "zarr", "blockfs", "ngff"}
    /\ n_levels = 1
    /\ urls = <<[transforms |-> <<0, 0, 0>>,
                 shape |-> <<1, 1, ServedExtent>>, fill |-> "ramp"]>>
    /\ unreadable = {}
    /\ pc = "listening"
    /\ level = 0
    /\ futures = {}
    /\ grid = NoArgs
    /\ info = write_info_file(1)
    /\ store = ServedStore
    /\ nwrites = <<>>
    /\ failed = FALSE
    /\ errors = {}
    /\ request = NoRequest
    /\ result = NoResult

\* The requests: a level key, well formed or not, of a level that exists or
\* not; then "/" once, twice or not at all; then two to four "a-b" parts,
\* the first with every defect of a part
PathInfos ==
    LET LevelTexts ==
            {KeyText(1), KeyText(2), <<"1", "_", "1">>, <<"1">>,
             <<"a", "_", "1", "_", "1">>}
        Slashes == {<<"/">>, <<"/", "/">>, <<"_">>}
        XTexts ==
            {<<Digits[p + 1], "-", Digits[p + 2]>> : p \in 0..ServedExtent}
            \cup {<<"1", "-", "0">>, <<"a", "-", "1">>, <<"0">>,
                  <<"0", "-", "1", "-", "2">>}
        YTexts == {<<"0", "-", "1">>, <<"0", "-", "a">>}
        ZTexts == {<<"0", "-", "1">>, <<"0", "-", "1", "-", "2">>}
        ChunkTexts ==
            {xt \o <<"_">> \o yt : xt \in XTexts, yt \in YTexts}
            \cup {xt \o <<"_">> \o yt \o <<"_">> \o zt :
                     xt \in XTexts, yt \in YTexts, zt \in ZTexts}
            \cup {xt \o <<"_">> \o yt \o <<"_">> \o zt \o <<"_">> \o zt :
                     xt \in XTexts, yt \in YTexts, zt \in ZTexts}
        Filenames ==
            {lt \o sl \o ct :
                lt \in LevelTexts, sl \in Slashes, ct \in ChunkTexts}
            \cup {InfoName, MeshInfoName, <<>>}
    IN  {<<"/">> \o name \o <<"/">> \o filename :
            name \in {VolumeName, <<"u">>, <<"v", "v">>},
            filename \in Filenames}
        \cup {<<"/">>, <<"/">> \o VolumeName}

\* a request to the wsgi application of wsgi_webserver
ServePrecomputed ==
    /\ pc = "listening"
    /\ \E path_info \in PathInfos :
          /\ request' = [op |-> "wsgi", path_info |-> path_info]
          /\ result' \in serve_precomputed(path_info)
    /\ pc' = "answered"
    /\ UNCHANGED <<config, level, futures, grid, info, store, nwrites,
                   failed, errors>>

\* a request to the wsgi application of dandi_webserver
DandiServePrecomputed ==
    /\ pc = "listening"
    /\ format = "ngff"
    /\ \E path_info \in PathInfos :
          /\ request' = [op |-> "dandi", path_info |-> path_info]
          /\ result' \in dandi_serve_precomputed(path_info)
    /\ pc' = "answered"
    /\ UNCHANGED <<config, level, futures, grid, info, store, nwrites,
                   failed, errors>>

NextServe ==
    \/ ServePrecomputed
    \/ DandiServePrecomputed

SpecServe == InitServe /\ [][NextServe]_vars

(***************************************************************************)
(* Vocabulary of the properties.                                           *)
(***************************************************************************)
\* ceil(a / b), stated without the code's (a + b - 1) // b
CeilDiv(a, b) == CHOOSE q \in 0..a : (q - 1) * b < a /\ a <= q * b

\* the extent of an axis at a level: ceil(extent / 2^(lvl - 1))
LevelExtent(extent, lvl) == CeilDiv(extent, 2 ^ (lvl - 1))

\* starts/ends tile [0, n) in chunks of c, the last one clipped
Tiles(starts, ends, n, c) ==
    /\ Len(starts) = Len(ends)
    /\ Len(starts) >= 1
    /\ starts[1] = 0
    /\ \A i \in 1..(Len(starts) - 1) :
          /\ ends[i] = starts[i + 1]
          /\ ends[i] - starts[i] = c
    /\ ends[Len(ends)] - starts[Len(starts)] >= 1
    /\ ends[Len(ends)] - starts[Len(starts)] <= c
    /\ ends[Len(ends)] = n

\* the write_level_* call of lvl has returned normally
LevelComplete(lvl) ==
    \/ level > lvl
    \/ level = lvl /\ pc \in {"next_level", "done"}

\* the chunks of the level's TilingGrid: <<x0, x1, y0, y1, z0, z1>>
GridChunks(lvl) ==
    {<<x0(lvl)[xi], x1(lvl)[xi], y0(lvl)[yi], y1(lvl)[yi],
       z0(lvl)[zi], z1(lvl)[zi]>> :
        xi \in DOMAIN x0(lvl), yi \in DOMAIN y0(lvl), zi \in DOMAIN z0(lvl)}

AddressOf(lvl, c) == ChunkAddress(lvl, c[1], c[2], c[3], c[4], c[5], c[6])

\* the addresses of the store that belong to a level
LevelAddresses(lvl) == {a \in DOMAIN store : a[1] = resolution(lvl)}

Missing == 0 - 1

\* the stored voxel of a level at (z, y, x), Missing if no written chunk
\* of the level's grid holds it
StoredVoxel(lvl, z, y, x) ==
    LET hit == {c \in GridChunks(lvl) :
                    /\ c[1] <= x /\ x < c[2]
                    /\ c[3] <= y /\ y < c[4]
                    /\ c[5] <= z /\ z < c[6]
                    /\ AddressOf(lvl, c) \in DOMAIN store
                    /\ <<z - c[5], y - c[3], x - c[1]>>
                          \in DOMAIN store[AddressOf(lvl, c)].data}
    IN  IF hit = {} THEN Missing
        ELSE LET c == CHOOSE c \in hit : TRUE
             IN  store[AddressOf(lvl, c)].data[<<z - c[5], y - c[3], x - c[1]>>]

\* the voxel coordinates <<z, y, x>> of a level
LevelVoxels(lvl) ==
    (0..(LevelExtent(z_extent, lvl) - 1))
        \X (0..(LevelExtent(y_extent, lvl) - 1))
        \X (0..(LevelExtent(x_extent, lvl) - 1))

\* every voxel of the level is stored
LevelDense(lvl) ==
    \A v \in LevelVoxels(lvl) : StoredVoxel(lvl, v[1], v[2], v[3]) # Missing

\* the level-(n-1) voxels under the level-n voxel v that lie in the extent
Children(n, v) ==
    {w \in LevelVoxels(n - 1) :
        /\ w[1] \in {2 * v[1], 2 * v[1] + 1}
        /\ w[2] \in {2 * v[2], 2 * v[2] + 1}
        /\ w[3] \in {2 * v[3], 2 * v[3] + 1}}

ChildValues(n, v) ==
    [w \in Children(n, v) |-> StoredVoxel(n - 1, w[1], w[2], w[3])]

(***************************************************************************)
(* C1: for every level the build reaches, the start/end arrays of each     *)
(* axis tile [0, ceil(extent / 2^(level-1))): they start at 0, each end is *)
(* the next start, every chunk but the last is chunk-size wide, the last   *)
(* is 1..chunk-size wide and ends at the level's extent.                   *)
(***************************************************************************)
C1_GridTilesLevel ==
    level >= 1 =>
        /\ Tiles(grid.x0d, grid.x1d, LevelExtent(x_extent, level), cx)
        /\ Tiles(grid.y0d, grid.y1d, LevelExtent(y_extent, level), cy)
        /\ Tiles(grid.z0d, grid.z1d, LevelExtent(z_extent, level), cz)

\* a level above 1 whose X axis has several chunks, the last one clipped
C1_Witness ==
    /\ level >= 2
    /\ Len(grid.x0d) >= 2
    /\ grid.x1d[Len(grid.x1d)] - grid.x0d[Len(grid.x0d)] < cx

(***************************************************************************)
(* C2: once write_level_1 has returned, the level-1 chunks in the store    *)
(* are exactly the chunks of the level-1 grid, each was written exactly    *)
(* once, and each holds source[z0:z1, y0:y1, x0:x1] (clipped, not padded). *)
(***************************************************************************)
C2_Level1Written ==
    LevelComplete(1) =>
        /\ LevelAddresses(1) = {AddressOf(1, c) : c \in GridChunks(1)}
        /\ \A c \in GridChunks(1) :
              /\ AddressOf(1, c) \in DOMAIN store
              /\ nwrites[AddressOf(1, c)] = 1
              /\ store[AddressOf(1, c)] =
                    MakeBlock(c[6] - c[5], c[4] - c[3], c[2] - c[1],
                              LAMBDA k, j, i :
                                  npstack(c[5] + k, c[3] + j, c[1] + i))

\* level 1 done, with several Z bands and a clipped last X chunk
C2_Witness ==
    /\ LevelComplete(1)
    /\ Len(z0(1)) >= 2
    /\ Len(x0(1)) >= 2
    /\ x_extent % cx # 0

(***************************************************************************)
(* C3 (as claimed): once write_level_n(L) has returned, L >= 2, every      *)
(* chunk of the level-L grid has been written exactly once, and the block  *)
(* counts n_x(L), n_y(L), n_z(L) are the lengths of x0(L), y0(L), z0(L).   *)
(***************************************************************************)
C3_EveryChunkDispatched ==
    (level >= 2 /\ LevelComplete(level)) =>
        /\ n_x(level) = Len(x0(level))
        /\ n_y(level) = Len(y0(level))
        /\ n_z(level) = Len(z0(level))
        /\ \A c \in GridChunks(level) :
              /\ AddressOf(level, c) \in DOMAIN nwrites
              /\ nwrites[AddressOf(level, c)] = 1

\* the client of a built volume has read all of level 1
ReadBackDone == pc = "read_back"

(***************************************************************************)
(* C4: reading the whole of level 1 back through ArrayReader[:, :, :]      *)
(* after write_info_file and write_level_1 returns an array of the         *)
(* volume's shape and dtype whose every voxel is the volume's voxel.       *)
(***************************************************************************)
C4_RoundTrip ==
    ReadBackDone =>
        /\ result.status = "ok"
        /\ result.dtype = "uint16"
        /\ result.squish = <<FALSE, FALSE, FALSE>>
        /\ <<result.nz, result.ny, result.nx>>
              = <<z_extent, y_extent, x_extent>>
        /\ result.data =
              [v \in (0..(z_extent - 1)) \X (0..(y_extent - 1))
                        \X (0..(x_extent - 1)) |->
                  npstack(v[1], v[2], v[3])]

\* read back from a volume of several chunks, the last X chunk clipped
C4_Witness ==
    /\ ReadBackDone
    /\ result.status = "ok"
    /\ x_extent > cx /\ x_extent % cx # 0
    /\ z_extent > cz
    /\ y_extent > cy

(***************************************************************************)
(* C5 (as claimed, for the voxels the level stores): for an image volume,  *)
(* once level n >= 2 has been built from a complete level n-1, every       *)
(* stored level-n voxel is the floor of the mean of the level-(n-1) voxels *)
(* under it that lie inside the level-(n-1) extent.                        *)
(***************************************************************************)
C5_MeanOfValidChildren ==
    \A n \in 2..MaxLevels :
        (ptype = "image" /\ LevelComplete(n) /\ LevelDense(n - 1)) =>
            \A v \in LevelVoxels(n) :
                StoredVoxel(n, v[1], v[2], v[3]) # Missing =>
                    StoredVoxel(n, v[1], v[2], v[3]) =
                        SumOver(Children(n, v), ChildValues(n, v))
                            \div Cardinality(Children(n, v))

(***************************************************************************)
(* C6 (as claimed, for the voxels the level stores): for a segmentation    *)
(* volume, in either format, once level n >= 2 has been built from a       *)
(* complete level n-1, every stored level-n voxel is the maximum of the    *)
(* level-(n-1) voxels under it.                                            *)
(***************************************************************************)
C6_MaxOfChildren ==
    \A n \in 2..MaxLevels :
        (ptype = "segmentation" /\ LevelComplete(n) /\ LevelDense(n - 1)) =>
            \A v \in LevelVoxels(n) :
                StoredVoxel(n, v[1], v[2], v[3]) # Missing =>
                    StoredVoxel(n, v[1], v[2], v[3]) =
                        MaxOver(Children(n, v), ChildValues(n, v))

(***************************************************************************)
(* What a client's call is compared with.                                  *)
(***************************************************************************)
\* the scale the call names, once the call has found it
Asked == get_scale(request.level).scale

\* the call named a scale of the manifest
ScaleFound == get_scale(request.level).raised = "no"

\* the half-open interval [p, q) of axis a lies within the asked scale
WithinAxis(a, p, q) ==
    /\ Asked.voxel_offset[a] <= p
    /\ q <= Asked.voxel_offset[a] + Asked.size[a]

\* the voxel the server stores at the global coordinate (z, y, x), and 0
\* where the volume has none
Served(z, y, x) ==
    IF WithinAxis(3, z, z + 1) /\ WithinAxis(2, y, y + 1)
          /\ WithinAxis(1, x, x + 1)
    THEN npstack(z - Asked.voxel_offset[3], y - Asked.voxel_offset[2],
                 x - Asked.voxel_offset[1])
    ELSE 0

\* the call was read_chunk on a rectangle of non-negative shape
RectangleRead ==
    /\ request.op = "read_chunk"
    /\ ScaleFound
    /\ request.x0 <= request.x1
    /\ request.y0 <= request.y1
    /\ request.z0 <= request.z1

RectangleInside ==
    /\ WithinAxis(1, request.x0, request.x1)
    /\ WithinAxis(2, request.y0, request.y1)
    /\ WithinAxis(3, request.z0, request.z1)

\* the result is the requested rectangle of the served volume, zero outside
RectangleReturned ==
    /\ result.status = "ok"
    /\ result.dtype = info.data_type
    /\ <<result.nz, result.ny, result.nx>>
          = <<request.z1 - request.z0, request.y1 - request.y0,
              request.x1 - request.x0>>
    /\ result.data =
          [v \in (0..(request.z1 - request.z0 - 1))
                    \X (0..(request.y1 - request.y0 - 1))
                    \X (0..(request.x1 - request.x0 - 1)) |->
              Served(request.z0 + v[1], request.y0 + v[2],
                     request.x0 + v[3])]

(***************************************************************************)
(* C7: read_chunk on a non-empty rectangle inside the volume returns an    *)
(* array of the rectangle's shape and the manifest's dtype whose element   *)
(* (k, j, i) is the stored voxel at (z0 + k, y0 + j, x0 + i), whatever the *)
(* voxel_offset, the chunk size and the chunks the rectangle spans.        *)
(***************************************************************************)
C7_ReadInside ==
    (/\ RectangleRead
     /\ RectangleInside
     /\ request.x0 < request.x1
     /\ request.y0 < request.y1
     /\ request.z0 < request.z1) => RectangleReturned

\* a rectangle that starts in the middle of a chunk and ends in the middle
\* of the next, in a volume with an offset and a clipped last chunk
C7_Witness ==
    /\ RectangleRead /\ RectangleInside
    /\ result.status = "ok"
    /\ \E a \in 1..3 :
          LET p == <<request.x0, request.y0, request.z0>>[a]
              q == <<request.x1, request.y1, request.z1>>[a]
              off == Asked.voxel_offset[a]
              c == Asked.chunk_sizes[a]
          IN  /\ off > 0
              /\ Asked.size[a] % c # 0
              /\ (p - off) % c # 0
              /\ (q - off) % c # 0
              /\ (q - 1 - off) \div c > (p - off) \div c

(***************************************************************************)
(* C8 (as claimed): read_chunk on a rectangle that reaches outside the     *)
(* volume, or lies entirely outside it, returns without error an array of  *)
(* the requested shape holding the stored voxels where the rectangle       *)
(* overlaps the volume and zero everywhere else.                           *)
(***************************************************************************)
C8_ReadOutside ==
    (RectangleRead /\ ~RectangleInside) => RectangleReturned

\* the call indexed an ArrayReader of a volume at the origin with three
\* slices a:b
SlicesRead ==
    /\ pc = "returned"
    /\ request.op = "getitem"
    /\ ScaleFound
    /\ Asked.voxel_offset = <<0, 0, 0>>
    /\ \A a \in 1..3 :
          request.key[a].kind = "slice" /\ request.key[a].step = None

\* numpy's a:b on an axis of length n: the first index and the length
NumpyLo(k, n) == IF k.start = None THEN 0 ELSE SliceIndex(k.start[1], n)

NumpyLen(k, n) ==
    Max(0, (IF k.stop = None THEN n ELSE SliceIndex(k.stop[1], n))
              - NumpyLo(k, n))

(***************************************************************************)
(* C9 (as claimed): indexing an ArrayReader with slices whose start and    *)
(* stop are negative, non-negative or omitted returns what the same slices *)
(* return on the dense volume as a numpy array.                            *)
(***************************************************************************)
C9_SlicesMatchNumpy ==
    SlicesRead =>
        LET n == <<Asked.size[3], Asked.size[2], Asked.size[1]>>
            k == request.key
        IN  /\ result.status = "ok"
            /\ <<result.nz, result.ny, result.nx>>
                  = <<NumpyLen(k[1], n[1]), NumpyLen(k[2], n[2]),
                      NumpyLen(k[3], n[3])>>
            /\ result.data =
                  [v \in (0..(NumpyLen(k[1], n[1]) - 1))
                            \X (0..(NumpyLen(k[2], n[2]) - 1))
                            \X (0..(NumpyLen(k[3], n[3]) - 1)) |->
                      Served(NumpyLo(k[1], n[1]) + v[1],
                             NumpyLo(k[2], n[2]) + v[2],
                             NumpyLo(k[3], n[3]) + v[3])]

(***************************************************************************)
(* C10: get_scale(level) returns the scale of the manifest whose key is    *)
(* the level's key, and raises KeyError when the manifest has none; it     *)
(* returns no other scale.                                                 *)
(***************************************************************************)
C10_GetScale ==
    request.op = "get_scale" =>
        LET key == <<request.level, request.level, request.level>>
        IN  IF \E n \in DOMAIN info.scales : info.scales[n].key = key
            THEN /\ result.raised = "no"
                 /\ result.scale \in {info.scales[n] : n \in DOMAIN info.scales}
                 /\ result.scale.key = key
            ELSE result = [raised |-> "KeyError"]

\* the second scale of a manifest was asked for and returned
C10_Witness ==
    /\ request.op = "get_scale"
    /\ request.level = 2
    /\ result.raised = "no"
    /\ result.scale = info.scales[2]
    /\ info.scales[2] # info.scales[1]

(***************************************************************************)
(* Vocabulary of the stitched reader's properties: the voxel <<z, y, x>>   *)
(* of the stitched volume that an output index stands for, the sources     *)
(* whose box holds it, and what such a source holds there.                 *)
(***************************************************************************)
StitchRead ==
    /\ pc = "returned"
    /\ request.op = "dandi_read_chunk"
    /\ result.status = "ok"

OutputIndices ==
    (0..(result.nz - 1)) \X (0..(result.ny - 1)) \X (0..(result.nx - 1))

GlobalOf(v) == <<request.z0 + v[1], request.y0 + v[2], request.x0 + v[3]>>

InBox(idx, g) ==
    \A a \in 1..3 :
        /\ urls[idx].transforms[a] <= g[a]
        /\ g[a] < urls[idx].transforms[a] + urls[idx].shape[a]

Covering(g) == {idx \in 1..Len(urls) : InBox(idx, g)}

SourceVoxel(idx, g) ==
    IF urls[idx].fill = "flat" THEN FlatValue
    ELSE npstack(g[1] - urls[idx].transforms[1],
                 g[2] - urls[idx].transforms[2],
                 g[3] - urls[idx].transforms[3])

(***************************************************************************)
(* C11: an output voxel of the stitched reader that lies inside the box of *)
(* exactly one source holds that source's value at the voxel's local       *)
(* coordinate (global coordinate minus the source's offset), unblended.    *)
(***************************************************************************)
C11_SingleSourceCopied ==
    StitchRead =>
        \A v \in OutputIndices :
            \A idx \in 1..Len(urls) :
                Covering(GlobalOf(v)) = {idx} =>
                    result.data[v] = SourceVoxel(idx, GlobalOf(v))

\* a read over two sources returned a voxel that only the second source
\* covers, away from that source's origin, next to a voxel both cover
C11_Witness ==
    /\ StitchRead
    /\ Len(urls) >= 2
    /\ \E v \in OutputIndices, w \in OutputIndices :
          /\ Covering(GlobalOf(v)) = {2}
          /\ urls[2].fill = "ramp"
          /\ result.data[v] = SourceVoxel(2, GlobalOf(v))
          /\ result.data[v] # npstack(GlobalOf(v)[1], GlobalOf(v)[2],
                                      GlobalOf(v)[3])
          /\ Cardinality(Covering(GlobalOf(w))) = 2

(***************************************************************************)
(* C12: an output voxel of the stitched reader that two sources cover      *)
(* holds a value between the two sources' values at that voxel, whatever   *)
(* the distances and the values.                                           *)
(***************************************************************************)
C12_BlendBetween ==
    StitchRead =>
        \A v \in OutputIndices :
            \A ia \in 1..Len(urls), ib \in 1..Len(urls) :
                (ia < ib /\ Covering(GlobalOf(v)) = {ia, ib}) =>
                    /\ Min(SourceVoxel(ia, GlobalOf(v)),
                           SourceVoxel(ib, GlobalOf(v))) <= result.data[v]
                    /\ result.data[v] <=
                           Max(SourceVoxel(ia, GlobalOf(v)),
                               SourceVoxel(ib, GlobalOf(v)))

\* the sources read_chunk blends or copies at an output voxel: those its
\* loop left in a and in b with a distance that is not negative (0: none)
RankedSources(gathered, r) ==
    [first |-> IF r.ad >= 0 THEN gathered[r.a + 1] ELSE 0,
     second |-> IF r.bd >= 0 THEN gathered[r.b + 1] ELSE 0]

RankAt(v) ==
    Once(UNION {{RankedSources(gathered, r) :
                    r \in {Rank(gathered, Len(gathered), request,
                                v[1], v[2], v[3])}} :
                   gathered \in {Gathered(request)}})

Selected(v) == {RankAt(v).first, RankAt(v).second} \ {0}

\* the distance get() computes for a source is negative exactly outside
\* the source's box
DistanceSign(v) ==
    \A idx \in 1..Len(urls) :
        InBox(idx, GlobalOf(v)) <=>
            /\ ~get_is_None(idx, request)
            /\ get_distance(idx, request, v[1], v[2], v[3]) >= 0

(***************************************************************************)
(* C13, as stated: the sources that contribute to an output voxel of the   *)
(* stitched reader are exactly the sources whose box holds the voxel.      *)
(***************************************************************************)
C13_ContributesIffInside ==
    StitchRead =>
        \A v \in OutputIndices : Selected(v) = Covering(GlobalOf(v))

(***************************************************************************)
(* C13, amended: a source's distance to edge is >= 0 exactly inside its    *)
(* box; only sources whose box holds the voxel contribute to it; when at   *)
(* most two sources hold the voxel all of them contribute, and when more   *)
(* do, two of them; a voxel that no source holds is zero.                  *)
(***************************************************************************)
C13_ContributesOnlyInside ==
    StitchRead =>
        \A v \in OutputIndices :
            /\ DistanceSign(v)
            /\ \A r \in {RankAt(v)} :
                   LET sel == {r.first, r.second} \ {0}
                       cov == Covering(GlobalOf(v))
                   IN  /\ sel \subseteq cov
                       /\ Cardinality(cov) <= 2 => sel = cov
                       /\ Cardinality(cov) > 2 => Cardinality(sel) = 2
                       /\ cov = {} => result.data[v] = 0

\* one read returned a voxel no source holds, a voxel two sources hold and
\* a voxel three sources hold, and one source holds none of them
C13_Witness ==
    /\ StitchRead
    /\ Len(urls) = 3
    /\ \E u \in OutputIndices, v \in OutputIndices, w \in OutputIndices :
          /\ Covering(GlobalOf(u)) = {} /\ result.data[u] = 0
          /\ Cardinality(Covering(GlobalOf(v))) = 2
          /\ Selected(v) = Covering(GlobalOf(v))
          /\ Cardinality(Covering(GlobalOf(w))) = 3
          /\ Cardinality(Selected(w)) = 2
          /\ \A idx \in Covering(GlobalOf(v)) :
                 SourceVoxel(idx, GlobalOf(v)) > 0

(***************************************************************************)
(* Vocabulary of the build's scheduling properties: the chunk addresses a  *)
(* task of the level being built writes.                                   *)
(***************************************************************************)
TaskAddresses(t) ==
    IF level = 1
    THEN {ChunkAddress(1, x0(1)[xi], x1(1)[xi], y0(1)[yi], y1(1)[yi],
                       t[1], t[2]) :
             xi \in 1..Len(x0(1)), yi \in 1..Len(y0(1))}
    ELSE {ChunkAddress(level, x0(level)[t[1] + 1], x1(level)[t[1] + 1],
                       y0(level)[t[2] + 1], y1(level)[t[2] + 1],
                       z0(level)[t[3] + 1], z1(level)[t[3] + 1])}

\* every task handed to the pool for the level has run and written its
\* chunks, and none raised
LevelSucceeded ==
    /\ futures = {}
    /\ errors = {}
    /\ ~failed
    /\ \A t \in Submitted : TaskAddresses(t) \subseteq DOMAIN store

(***************************************************************************)
(* C14: main builds the levels strictly in the order 1, 2, ..., N: the     *)
(* tasks of level n+1 are handed to the pool, and with them the first read *)
(* of a level-n chunk as a downsampling source becomes possible, only once *)
(* every write task of level n has completed successfully; a task only     *)
(* runs while its own level is being built.                                *)
(***************************************************************************)
C14_LevelsInOrder ==
    [][/\ level' # level =>
              /\ level' = level + 1
              /\ level >= 1 => LevelSucceeded
              /\ futures' \in {Level1Tasks, LevelNTasks(level + 1)}
       /\ (store' # store \/ (futures' \subseteq futures /\ futures' # futures))
              => /\ pc = "pool"
                 /\ level' = level
                 /\ \E t \in futures : futures' = futures \ {t}]_vars

\* with two tasks at level 1 and two at level 2, one task of level 2 has
\* run and the other has not
C14_Witness ==
    /\ pc = "pool"
    /\ level = 2
    /\ Cardinality(Level1Tasks) = 2
    /\ Cardinality(Submitted) = 2
    /\ Cardinality(futures) = 1
    /\ errors = {}
    /\ \E t \in Submitted \ futures : TaskAddresses(t) \subseteq DOMAIN store

(***************************************************************************)
(* C15: once a write task of level n has failed, no task of a level above  *)
(* n is ever handed to the pool and main never gets past the level; the    *)
(* failure comes out of write_level_1 / write_level_n in main, which ends  *)
(* with that exception.                                                    *)
(***************************************************************************)
C15_FailurePropagates ==
    /\ [][failed =>
             /\ failed'
             /\ level' = level
             /\ futures' \subseteq futures
             /\ pc' \in {"pool", "raised"}]_vars
    /\ failed ~> (/\ pc = "raised"
                  /\ result.status = "raised"
                  /\ result.level = level
                  /\ result.task \in errors)

\* a task of level 2 failed in a build of three levels, and main ended
\* with the exception at level 2
C15_Witness ==
    /\ pc = "raised"
    /\ n_levels = 3
    /\ level = 2
    /\ result.status = "raised"
    /\ result.task \in errors

\* the shape of an .ims volume: the build's extents in units of ImsUnit
ImsShape == <<z_extent * ImsUnit, y_extent * ImsUnit, x_extent * ImsUnit>>

(***************************************************************************)
(* C16: within the build of one level, two distinct tasks write disjoint   *)
(* sets of chunk addresses: the Z-band tasks of level 1, the destination-  *)
(* chunk tasks of level n, and the cube tasks of the ims converter; in any *)
(* interleaving, no address is written twice.                              *)
(***************************************************************************)
C16_DisjointWrites ==
    /\ \A a \in DOMAIN nwrites : nwrites[a] = 1
    /\ pc = "pool" =>
           \A t \in Submitted, u \in Submitted :
               t # u => TaskAddresses(t) \cap TaskAddresses(u) = {}
    /\ pc = "start" =>
           \A t \in ims_tasks(ImsShape), u \in ims_tasks(ImsShape) :
               t # u => ims_write_one(ImsShape, t)
                           \cap ims_write_one(ImsShape, u) = {}

\* the two tasks of level 2 have both run after the two Z bands of a
\* blockfs volume of several chunks, and the ims converter would have cut
\* the volume into several cubes
C16_Witness ==
    /\ pc = "pool"
    /\ format = "blockfs"
    /\ level = 2
    /\ Cardinality(Level1Tasks) = 2
    /\ Cardinality(Submitted) = 2
    /\ futures = {}
    /\ errors = {}
    /\ Cardinality(DOMAIN nwrites) >= 6
    /\ Cardinality(ims_tasks(ImsShape)) >= 2

(***************************************************************************)
(* C17: write_level_1 and write_level_n hand every task of the level to    *)
(* the pool before waiting for any; the call returns to main only when     *)
(* every task it handed over has run without raising; when tasks raised,   *)
(* the call raises instead, with the exception of the first task, in the   *)
(* order of submission, that raised, all tasks before it having ended; no  *)
(* task is pending when the call returns normally.                         *)
(***************************************************************************)
C17_AllCompleteOrFirstFailure ==
    [][/\ (pc # "pool" /\ pc' = "pool") =>
              /\ futures' = Submitted'
              /\ errors' = {}
       /\ (pc = "pool" /\ pc' \in {"next_level", "done"}) =>
              /\ futures = {}
              /\ errors = {}
              /\ \A t \in Submitted : TaskAddresses(t) \subseteq DOMAIN store
       /\ (pc = "pool" /\ pc' # "pool") =>
              \/ pc' \in {"next_level", "done"}
              \/ /\ pc' = "raised"
                 /\ errors # {}
                 /\ result'.status = "raised"
                 /\ result'.task \in errors
                 /\ \A u \in Submitted :
                       Before(u, result'.task) =>
                           u \notin futures /\ u \notin errors]_vars

\* two tasks of the level raised, and main ended with the exception of the
\* one submitted first
C17_Witness ==
    /\ pc = "raised"
    /\ result.task \in errors
    /\ \E u \in errors : Before(result.task, u)

\* the planes of the Z band t = <<z0a, z1a>> that cannot be read
UnreadablePlanes(t) ==
    {z \in t[1]..(Min(t[2], z_extent) - 1) : <<0, z>> \in unreadable}

(***************************************************************************)
(* C18: a Z-band task of level 1 whose band holds a plane that cannot be   *)
(* read raises, and no chunk of the band is written, neither before nor    *)
(* after: the task reads every plane of the band before it writes the      *)
(* first chunk.                                                            *)
(***************************************************************************)
C18_NoPartialBand ==
    level = 1 =>
        \A t \in Level1Tasks :
            UnreadablePlanes(t) # {} =>
                /\ TaskAddresses(t) \cap DOMAIN store = {}
                /\ t \notin futures => pc = "pool" \/ t \in errors
                /\ (t \notin futures /\ pc = "pool") => t \in errors

\* of two Z bands, the one with an unreadable plane raised and wrote
\* nothing, the other wrote its chunks
C18_Witness ==
    /\ level = 1
    /\ pc = "raised"
    /\ Cardinality(Level1Tasks) = 2
    /\ futures = {}
    /\ \E t \in errors, u \in Level1Tasks :
          /\ UnreadablePlanes(t) # {}
          /\ TaskAddresses(t) \cap DOMAIN store = {}
          /\ u \notin errors
          /\ TaskAddresses(u) \subseteq DOMAIN store

\* the last element of a non-empty sequence
Last(ends) == ends[Len(ends)]

NamesConfiguredVolume(path_info) ==
    \E n \in DOMAIN ServedConfig :
        startswith(path_info, <<"/">> \o ServedConfig[n].name \o <<"/">>)

\* what follows "/<name>/", the name running up to the second "/"
AddressPart(path_info) ==
    LET rest == Tail(path_info)
        slash == IF \E n \in DOMAIN rest : rest[n] = "/"
                 THEN CHOOSE n \in DOMAIN rest :
                          /\ rest[n] = "/"
                          /\ \A m \in 1..(n - 1) : rest[m] # "/"
                 ELSE Len(rest)
    IN  SubSeq(rest, slash + 1, Len(rest))

\* str is integers joined by sep, count of them
IsNumbers(str, sep, count) ==
    /\ Len(split(str, sep)) = count
    /\ \A n \in 1..count : is_int(split(str, sep)[n])

\* the address is "r_r_r/x0-x1_y0-y1_z0-z1": two "/" parts, three "_" parts
\* in each, integers throughout
WellFormedAddress(address) ==
    /\ Len(split(address, "/")) = 2
    /\ IsNumbers(split(address, "/")[1], "_", 3)
    /\ Len(split(split(address, "/")[2], "_")) = 3
    /\ \A n \in 1..3 :
          IsNumbers(split(split(address, "/")[2], "_")[n], "-", 2)

\* a request for a chunk: neither the listing "/" nor a volume's manifest
ChunkRequest ==
    /\ pc = "answered"
    /\ request.path_info # <<"/">>
    /\ AddressPart(request.path_info) # InfoName

(***************************************************************************)
(* C20: serve_precomputed answers "404 Not found", and raises nothing,     *)
(* when the path names a volume that the configuration does not hold or    *)
(* when the chunk address in it is malformed (a wrong number of "/" or "_" *)
(* parts, or a coordinate that is not an integer); it answers "200 OK"     *)
(* only to a well-formed address of a configured volume.                   *)
(***************************************************************************)
C20_NotFoundNotRaised ==
    ChunkRequest =>
        /\ (\/ ~NamesConfiguredVolume(request.path_info)
            \/ ~WellFormedAddress(AddressPart(request.path_info)))
               => result.status = "404 Not found"
        /\ result.status = "200 OK" =>
               /\ NamesConfiguredVolume(request.path_info)
               /\ WellFormedAddress(AddressPart(request.path_info))

\* the tasks of the level being built that have run and not raised
Completed == Submitted \ (futures \cup errors)

Requested ==
    IF RectangleRead THEN chunk_addresses(Asked, request) ELSE {}

\* the chunks of the asked scale's grid: from each origin one chunk size on,
\* clipped at the end of the volume
ScaleChunks ==
    LET off == Asked.voxel_offset
        cs == Asked.chunk_sizes
        end == [a \in 1..3 |-> off[a] + Asked.size[a]]
    IN  {[c |-> c, d |-> <<Min(end[1], c[1] + cs[1]),
                           Min(end[2], c[2] + cs[2]),
                           Min(end[3], c[3] + cs[3])>>] :
            c \in {o \in (off[1]..(end[1] - 1)) \X (off[2]..(end[2] - 1))
                          \X (off[3]..(end[3] - 1)) :
                      \A a \in 1..3 : (o[a] - off[a]) % cs[a] = 0}}

(***************************************************************************)
(* C22: every chunk address read_chunk requests is a chunk of the level's  *)
(* grid.  On each axis its origin is at or after voxel_offset and a whole  *)
(* number of chunks from it, its end is at most voxel_offset + size, and   *)
(* its length is the chunk size or what is left of the volume.             *)
(***************************************************************************)
C22_ValidAddresses ==
    \A r \in Requested :
        \A a \in 1..3 :
            LET off == Asked.voxel_offset[a]
                cs == Asked.chunk_sizes[a]
                end == off + Asked.size[a]
            IN  /\ r.c[a] >= off
                /\ (r.c[a] - off) % cs = 0
                /\ r.d[a] <= end
                /\ r.c[a] < r.d[a]
                /\ \/ r.d[a] - r.c[a] = cs
                   \/ r.d[a] = end /\ r.d[a] - r.c[a] < cs

\* a call asked for a clipped last chunk and a whole one of a volume with
\* an offset
C22_Witness ==
    /\ pc = "returned"
    /\ RectangleRead
    /\ \E a \in 1..3 :
          /\ Asked.voxel_offset[a] > 0
          /\ \E r \in Requested : r.d[a] - r.c[a] < Asked.chunk_sizes[a]
          /\ \E r \in Requested : r.d[a] - r.c[a] = Asked.chunk_sizes[a]

(***************************************************************************)
(* C23 (as claimed): for a non-empty rectangle inside the volume,          *)
(* read_chunk fetches a chunk of the grid if and only if the chunk's       *)
(* bounds intersect the rectangle, also when a bound of the rectangle is   *)
(* exactly on a chunk boundary.                                            *)
(***************************************************************************)
C23_FetchesIffIntersects ==
    (/\ RectangleRead
     /\ RectangleInside
     /\ request.x0 < request.x1
     /\ request.y0 < request.y1
     /\ request.z0 < request.z1) =>
        Requested =
            {g \in ScaleChunks :
                /\ g.c[1] < request.x1 /\ request.x0 < g.d[1]
                /\ g.c[2] < request.y1 /\ request.y0 < g.d[2]
                /\ g.c[3] < request.z1 /\ request.z0 < g.d[3]}

EdgeDistance(idx, g) ==
    LET d(a) == Min(g[a] - urls[idx].transforms[a],
                    urls[idx].transforms[a] + urls[idx].shape[a] - 1 - g[a])
    IN  Min(d(1), Min(d(2), d(3)))

(***************************************************************************)
(* C25: at an output voxel of the stitched reader that two or more sources *)
(* hold, "a" is a source with the greatest distance to its edge and "b" a  *)
(* source with the greatest distance among the others; the voxel is        *)
(* sin(atan2(da, db))^2 * value_a + cos(atan2(da, db))^2 * value_b, the    *)
(* mean of the two values weighted by da^2 and db^2, as the integer dtype  *)
(* stores it: its integer part, or one less where floating point falls     *)
(* short of a whole number.  No other source has a part in the voxel.      *)
(***************************************************************************)
C25_TopTwoBlended ==
    StitchRead =>
        \A v \in OutputIndices :
            \A cov \in {Covering(GlobalOf(v))} :
                Cardinality(cov) >= 2 =>
                    \A r \in {RankAt(v)} :
                        LET g == GlobalOf(v)
                            da == EdgeDistance(r.first, g)
                            db == EdgeDistance(r.second, g)
                            va == SourceVoxel(r.first, g)
                            vb == SourceVoxel(r.second, g)
                            num == da * da * va + db * db * vb
                            den == da * da + db * db
                        IN  /\ r.first \in cov
                            /\ r.second \in cov \ {r.first}
                            /\ \A idx \in cov : EdgeDistance(idx, g) <= da
                            /\ \A idx \in cov \ {r.first} :
                                  EdgeDistance(idx, g) <= db
                            /\ IF den = 0 THEN result.data[v] = vb
                               ELSE /\ result.data[v] * den <= num
                                    /\ num <= (result.data[v] + 1) * den

\* three sources hold a voxel at three different distances from their
\* edges and with different values, and the voxel is strictly between the
\* values of the two furthest from their edges
C25_Witness ==
    /\ StitchRead
    /\ \E v \in OutputIndices :
          LET g == GlobalOf(v)
              r == RankAt(v)
          IN  /\ Cardinality(Covering(g)) = 3
              /\ Cardinality({EdgeDistance(idx, g) : idx \in Covering(g)}) = 3
              /\ EdgeDistance(r.second, g) > 0
              /\ Min(SourceVoxel(r.first, g), SourceVoxel(r.second, g))
                    < result.data[v]
              /\ result.data[v]
                    < Max(SourceVoxel(r.first, g), SourceVoxel(r.second, g))

\* the voxel read_chunk computes when its loop meets the sources in the
\* given order of their numbers
StitchedInOrder(order, v) ==
    Once(UNION {{Stitched(gathered, r, request, v[1], v[2], v[3],
                          request.short) :
                    r \in {Rank(gathered, Len(gathered), request,
                                v[1], v[2], v[3])}} :
                   gathered \in {SelectSeq(order,
                                     LAMBDA idx :
                                         ~get_is_None(idx, request))}})

(***************************************************************************)
(* C30 (as claimed): the stitched result does not depend on the order of   *)
(* the list of source URLs: with the sources listed in any other order     *)
(* every output voxel is the same, also where sources are at equal         *)
(* distances from their edges and where three or more overlap.             *)
(***************************************************************************)
C30_OrderIndependent ==
    StitchRead =>
        \A order \in {o \in [1..Len(urls) -> 1..Len(urls)] :
                         \A idx \in 1..Len(urls) : \E n \in 1..Len(urls) :
                             o[n] = idx} :
            \A v \in OutputIndices :
                StitchedInOrder(order, v) = result.data[v]

(***************************************************************************)
(* zarr_stack.py: ZarrStack.write_level_1.  The level is one zarr array of *)
(* shape (z_extent, y_extent, x_extent), held in store as a function of    *)
(* <<z, y, x>>; its chunks are ZarrChunk planes deep (64 in the code).     *)
(* level counts the Z bands the loop has been through.                     *)
(***************************************************************************)
ZarrChunk == 2

\* zip(self.z0(1), self.z1(1)) of ZarrStack
zarr_bands ==
    LET starts == Arange(z_extent, ZarrChunk)
    IN  [n \in 1..Len(starts) |->
            <<starts[n],
              IF n = Len(starts) THEN z_extent ELSE starts[n] + ZarrChunk>>]

\* One pass of the loop of write_level_1:
\*   img = np.zeros((64, y1[-1], x1[-1]), self.dtype)
\*   for z in range(z0a, z1a): img[z - z0a] = tifffile.imread(self.files[z])
\*   z_arr_1[z0a:z1a] = img
\* zarr refuses a value whose shape is not the shape of the selection.
zarr_write_band(z0a, z1a) ==
    LET img == MakeBlock(ZarrChunk, y_extent, x_extent,
                         LAMBDA k, j, i :
                             IF k < z1a - z0a THEN npstack(z0a + k, j, i)
                             ELSE 0)
        selected == SliceLen(z0a, z1a, z_extent)
    IN  IF img.nz # selected
        THEN [ok |-> FALSE, array |-> store]
        ELSE [ok |-> TRUE,
              array |-> [p \in DOMAIN store |->
                            IF z0a <= p[1] /\ p[1] < z1a
                            THEN img.data[<<p[1] - z0a, p[2], p[3]>>]
                            ELSE store[p]]]

InitZarr ==
    /\ x_extent \in 1..MaxExtent
    /\ y_extent \in 1..MinorExtent
    /\ z_extent \in 1..(2 * ZarrChunk + 1)
    /\ chunksize = <<ZarrChunk, ZarrChunk, ZarrChunk>>
    /\ ptype = "image"
    /\ format = "zarr"
    /\ n_levels = 1
    /\ urls = <<>>
    /\ unreadable = {}
    /\ pc = "start"
    /\ level = 0
    /\ futures = {}
    /\ grid = NoArgs
    /\ info = NoInfo
    /\ store = <<>>
    /\ nwrites = <<>>
    /\ failed = FALSE
    /\ errors = {}
    /\ request = NoRequest
    /\ result = NoResult

\* zarr.open(store, mode='w', chunks=(64, 64, 64), shape=(z, y, x)): an
\* array of the fill value 0
ZarrOpen ==
    /\ pc = "start"
    /\ store' = [p \in (0..(z_extent - 1)) \X (0..(y_extent - 1))
                         \X (0..(x_extent - 1)) |-> 0]
    /\ pc' = "bands"
    /\ UNCHANGED <<config, level, futures, grid, info, nwrites, failed,
                   errors, request, result>>

\* the next pass of the loop over the Z bands; a ValueError ends the call
ZarrWriteBand ==
    /\ pc = "bands"
    /\ level < Len(zarr_bands)
    /\ \E w \in {zarr_write_band(zarr_bands[level + 1][1],
                                 zarr_bands[level + 1][2])} :
          /\ store' = w.array
          /\ pc' = IF w.ok THEN "bands" ELSE "raised"
          /\ failed' = ~w.ok
          /\ result' = IF w.ok THEN result
                       ELSE [status |-> "ValueError", level |-> 1,
                             task |-> zarr_bands[level + 1]]
    /\ level' = level + 1
    /\ UNCHANGED <<config, futures, grid, info, nwrites, errors, request>>

\* the loop is over: write_level_1 returns
ZarrReturns ==
    /\ pc = "bands"
    /\ level = Len(zarr_bands)
    /\ pc' = "done"
    /\ UNCHANGED <<config, level, futures, grid, info, store, nwrites,
                   failed, errors, request, result>>

NextZarr == ZarrOpen \/ ZarrWriteBand \/ ZarrReturns

SpecZarr == InitZarr /\ [][NextZarr]_vars

(***************************************************************************)
(* C26 (as claimed): ZarrStack.write_level_1 writes every Z band whatever  *)
(* the Z extent, also a last band of fewer planes than the chunk depth,    *)
(* and when it is over plane z of level 1 holds source plane z for all z.  *)
(***************************************************************************)
C26_EveryBandWritten ==
    /\ pc # "raised"
    /\ pc = "done" =>
          \A p \in (0..(z_extent - 1)) \X (0..(y_extent - 1))
                     \X (0..(x_extent - 1)) :
              store[p] = npstack(p[1], p[2], p[3])

(***************************************************************************)
(* C27 (as claimed): whenever main is over, because the last level         *)
(* returned or because a level raised, every level the persisted manifest  *)
(* lists is built: all the tasks of the level have run and written their   *)
(* chunks.  The manifest never lists a level that is not built in full.    *)
(***************************************************************************)
C27_ManifestOnlyBuiltLevels ==
    pc \in {"done", "raised"} =>
        \A k \in DOMAIN info.scales :
            /\ LevelComplete(k)
            /\ \A a \in UNION {TaskAddresses(t) : t \in Submitted} :
                  k = level => a \in DOMAIN store

(***************************************************************************)
(* client.py: get_info and clear_cache.  store is the module's __cache, a  *)
(* function from the URL without its prefix to the Info fetched; info is   *)
(* what each data source serves as its info file, by the number of times   *)
(* it was rewritten.  URLs are sequences of characters.                    *)
(***************************************************************************)
MaxEdits == 2

precomputed ==
    <<"p", "r", "e", "c", "o", "m", "p", "u", "t", "e", "d", ":", "/", "/">>

\* the URLs of the data sources, and what a client writes for them
SourceUrls == {<<"u">>, <<"w">>}

ClientUrls == SourceUrls \cup {precomputed \o u : u \in SourceUrls}

\* the key get_info reads and writes the cache with
cache_key(url) ==
    IF startswith(url, precomputed)
    THEN SubSeq(url, Len(precomputed) + 1, Len(url))
    ELSE url

get_info(url) ==
    LET key == cache_key(url)
    IN  IF key \in DOMAIN store
        THEN [fetched |-> FALSE, info |-> store[key], cache |-> store]
        ELSE [fetched |-> TRUE, info |-> info[key],
              cache |-> (key :> info[key]) @@ store]

\* clear_cache(url=None): arg is None or Some(url)
clear_cache(arg) ==
    IF arg = None THEN <<>>
    ELSE IF arg[1] \in DOMAIN store
    THEN [k \in DOMAIN store \ {arg[1]} |-> store[k]]
    ELSE store

InitCache ==
    /\ x_extent = 1 /\ y_extent = 1 /\ z_extent = 1
    /\ chunksize = <<1, 1, 1>>
    /\ ptype = "image"
    /\ format = "http"
    /\ n_levels = 1
    /\ urls = <<>>
    /\ unreadable = {}
    /\ pc = "client"
    /\ level = 0
    /\ futures = {}
    /\ grid = NoArgs
    /\ info = [u \in SourceUrls |-> 0]
    /\ store = <<>>
    /\ nwrites = <<>>
    /\ failed = FALSE
    /\ errors = {}
    /\ request = NoRequest
    /\ result = NoResult

GetInfo ==
    /\ \E url \in ClientUrls :
          \E r \in {get_info(url)} :
              /\ store' = r.cache
              /\ request' = [op |-> "get_info", url |-> url]
              /\ result' = [status |-> "ok", fetched |-> r.fetched,
                            info |-> r.info]
    /\ UNCHANGED <<config, pc, level, futures, grid, info, nwrites, failed,
                   errors>>

ClearCache ==
    /\ \E arg \in {None} \cup {Some(url) : url \in ClientUrls} :
          /\ store' = clear_cache(arg)
          /\ request' = [op |-> "clear_cache", url |-> arg]
          /\ result' = [status |-> "ok"]
    /\ UNCHANGED <<config, pc, level, futures, grid, info, nwrites, failed,
                   errors>>

\* a data source rewrites its info file
InfoRewritten ==
    /\ \E u \in SourceUrls :
          /\ info[u] < MaxEdits
          /\ info' = [info EXCEPT ![u] = @ + 1]
    /\ UNCHANGED <<config, pc, level, futures, grid, store, nwrites, failed,
                   errors, request, result>>

NextCache == GetInfo \/ ClearCache \/ InfoRewritten

SpecCache == InitCache /\ [][NextCache]_vars

(***************************************************************************)
(* C28 (as claimed): get_info fetches the info of a URL at most once       *)
(* between two clears: a URL whose info the cache holds is not fetched.    *)
(* After clear_cache(u) with the URL string a client gives get_info, with  *)
(* or without the "precomputed://" prefix, or after clear_cache(), the     *)
(* next get_info(u) fetches again.  clear_cache(u) leaves the entries of   *)
(* the other URLs as they are.                                             *)
(***************************************************************************)
C28_FetchedOncePerClear ==
    [][/\ (request'.op = "get_info" /\ request' # request
              /\ cache_key(request'.url) \in DOMAIN store) =>
            ~result'.fetched
       /\ (/\ request.op = "clear_cache"
           /\ request'.op = "get_info"
           /\ request.url \in {None, Some(request'.url)}) =>
            result'.fetched
       /\ (/\ request'.op = "clear_cache" /\ request' # request
           /\ request'.url # None) =>
            \A k \in DOMAIN store :
                cache_key(k) # cache_key(request'.url[1]) =>
                    k \in DOMAIN store' /\ store'[k] = store[k]]_vars

(***************************************************************************)
(* wsgi_webserver.py: get_config.  info is the configuration file on disk: *)
(* its st_mtime and the number of times it was rewritten, which stands for *)
(* its content.  store is CONFIG_FILE_DICT, from the file's name to the    *)
(* pair of the configuration and the mtime it was read at.                 *)
(***************************************************************************)
ConfigFile == <<"f">>

\* the values of st_mtime the file is seen with
Mtimes == 0..(MaxEdits + 1)

get_config(config_file) ==
    LET entry == IF config_file \in DOMAIN store THEN store[config_file]
                 ELSE [config |-> None, t |-> 0]
        mtime == info.mtime
    IN  IF entry.t = mtime
        THEN [config |-> entry.config, reread |-> FALSE, dict |-> store]
        ELSE [config |-> Some(info.version), reread |-> TRUE,
              dict |-> (config_file :>
                            [config |-> Some(info.version), t |-> mtime])
                       @@ store]

InitConfig ==
    /\ x_extent = 1 /\ y_extent = 1 /\ z_extent = 1
    /\ chunksize = <<1, 1, 1>>
    /\ ptype = "image"
    /\ format = "tiff"
    /\ n_levels = 1
    /\ urls = <<>>
    /\ unreadable = {}
    /\ pc = "listening"
    /\ level = 0
    /\ futures = {}
    /\ grid = NoArgs
    /\ info \in [mtime : Mtimes, version : {0}]
    /\ store = <<>>
    /\ nwrites = <<>>
    /\ failed = FALSE
    /\ errors = {}
    /\ request = NoRequest
    /\ result = NoResult

\* serve_precomputed begins with config = get_config(config_file)
GetConfig ==
    /\ \E r \in {get_config(ConfigFile)} :
          /\ store' = r.dict
          /\ request' = [op |-> "get_config", mtime |-> info.mtime,
                         version |-> info.version]
          /\ result' = [status |-> "ok", config |-> r.config,
                        reread |-> r.reread]
    /\ UNCHANGED <<config, pc, level, futures, grid, info, nwrites, failed,
                   errors>>

\* the file is rewritten, and its mtime is what the clock or the writer
\* makes it
ConfigRewritten ==
    /\ info.version < MaxEdits
    /\ \E t \in Mtimes :
          info' = [mtime |-> t, version |-> info.version + 1]
    /\ UNCHANGED <<config, pc, level, futures, grid, store, nwrites, failed,
                   errors, request, result>>

NextConfig == GetConfig \/ ConfigRewritten

SpecConfig == InitConfig /\ [][NextConfig]_vars

(***************************************************************************)
(* C29 (as claimed): get_config(f) of a file that exists and can be read   *)
(* never returns None, and it reads the file again exactly when the file's *)
(* mtime is not the mtime it holds for f.                                  *)
(***************************************************************************)
C29_ConfigNeverNone ==
    [][(request'.op = "get_config" /\ info' = info
           /\ <<store, request, result>>' # <<store, request, result>>) =>
            /\ result'.config # None
            /\ result'.reread <=>
                  \/ ConfigFile \notin DOMAIN store
                  \/ store[ConfigFile].t # info.mtime]_vars

====
